---- MODULE Spec2Model ----
(***************************************************************************)
(* dartt-dashboard: region coalescer, buffer marshaller, the per-frame     *)
(* value handlers of the Live Expressions view, and the field tree builder *)
(* (type_info_to_dartt_field, expand_array_elements, collect_leaves).      *)
(*                                                                         *)
(* SpecSync  : the synchronization cycle over a loaded leaf list.          *)
(* SpecLoad  : the construction of a field tree from resolved type info.   *)
(***************************************************************************)
EXTENDS Integers, Sequences, FiniteSets, TLC

(* ----------------------------------------------------------------------- *)
(* Bounds of the model                                                     *)
(* ----------------------------------------------------------------------- *)
MaxEdits == 3
MaxClicks == 1
MaxCalls == 4
MaxCap == 2
MaxUiOps == 2
MaxDepth == 4
MaxParsed == 2

(* ----------------------------------------------------------------------- *)
(* Program constants                                                       *)
(* ----------------------------------------------------------------------- *)
WordBytes == 4
ValueSlotBytes == 8

Byte == {0, 1, 2}
EditVals == {1, 2}

(* ----------------------------------------------------------------------- *)
(* Leaf lists of loaded configurations (DarttConfig::leaf_list, in the     *)
(* depth-first declaration order collect_leaves produces), the size of the *)
(* mirror buffers (config.nbytes) and the size of the symbol on the device.*)
(* ----------------------------------------------------------------------- *)
Leaf(n, o, s, t) == [name |-> n, byte_offset |-> o, nbytes |-> s, type |-> t]

\* a description with the leaves A (offset 0, 4 bytes), B (offset 4, 4 bytes)
\* and C (offset 12, 2 bytes), "nbytes": 16
LayoutExample ==
  [nbytes |-> 16, devbytes |-> 16,
   leaves |-> << Leaf("A", 0, 4, "FLOAT"), Leaf("B", 4, 4, "INT32"),
                 Leaf("C", 12, 2, "INT16") >>]

\* union { struct { uint32_t a; uint32_t b; } s; uint16_t e; }
LayoutUnion ==
  [nbytes |-> 8, devbytes |-> 8,
   leaves |-> << Leaf("a", 0, 4, "UINT32"), Leaf("b", 4, 4, "UINT32"),
                 Leaf("e", 0, 2, "UINT16") >>]

\* struct { uint8_t x; uint8_t y; double w; }
LayoutSubWord ==
  [nbytes |-> 16, devbytes |-> 16,
   leaves |-> << Leaf("x", 0, 1, "UINT8"), Leaf("y", 1, 1, "UINT8"),
                 Leaf("w", 8, 8, "DOUBLE") >>]

\* a description whose "nbytes" (4) is smaller than the extent of its fields:
\* struct { uint32_t a; uint32_t b; } with "nbytes": 4
LayoutShortBuffer ==
  [nbytes |-> 4, devbytes |-> 8,
   leaves |-> << Leaf("a", 0, 4, "UINT32"), Leaf("b", 4, 4, "UINT32") >>]

\* struct { uint8_t x; uint8_t y; }: a symbol whose size, 2, is not a
\* multiple of the word size
LayoutTwoBytes ==
  [nbytes |-> 2, devbytes |-> 2,
   leaves |-> << Leaf("x", 0, 1, "UINT8"), Leaf("y", 1, 1, "UINT8") >>]

Layouts ==
  {LayoutExample, LayoutUnion, LayoutSubWord, LayoutShortBuffer,
   LayoutTwoBytes}

(* ----------------------------------------------------------------------- *)
(* State                                                                   *)
(* ----------------------------------------------------------------------- *)
VARIABLES
  leaf_list,          \* config.leaf_list: sequence of leaf descriptions
  cfg_nbytes,         \* config.nbytes = ctl_buf.size = periph_buf.size
  dirty,              \* DarttField::dirty per leaf
  subscribed,         \* DarttField::subscribed per leaf
  use_display_scale,  \* DarttField::use_display_scale per leaf
  value,              \* DarttField::value per leaf: the 8 bytes of the union
  ctl_buf,            \* config.ctl_buf.buf ("desired")
  periph_buf,         \* config.periph_buf.buf ("observed")
  dev,                \* the symbol's bytes on the device
  dirty_list,         \* config.dirty_list
  subscribed_list,    \* config.subscribed_list
  write_queue,        \* regions returned by build_write_queue
  read_queue,         \* regions returned by build_read_queue
  qi,                 \* index of the region being processed
  pc,                 \* position in the synchronization cycle
  last_op,            \* the operation that produced this state
  ret,                \* return value of the last marshaller call
  acked,              \* regions acknowledged in this cycle
  nedits,             \* edits made so far (bounded by MaxEdits)
  nclicks             \* checkbox clicks so far (bounded by MaxClicks)

sync_vars == << leaf_list, cfg_nbytes, dirty, subscribed, use_display_scale,
                value, ctl_buf, periph_buf, dev, dirty_list, subscribed_list,
                write_queue, read_queue, qi, pc, last_op, ret, acked,
                nedits, nclicks >>

VARIABLES
  type_info,          \* the TypeInfo tree resolved for the symbol
  sym_size,           \* the symbol's size in the symbol table
  nbytes,             \* config.nbytes as set by elf_parser_load_config
  tree,               \* config.root: path |-> DarttField
  stack,              \* the work stack of the running traversal
  load_leaves,        \* the leaf list being collected (paths)
  load_pc,            \* position in elf_parser_load_config
  elf_file,           \* what the file at elf_path holds for symbol_name
  load_result,        \* the elf_parse_error_t returned by the load
  json_doc,           \* the JSON description file
  ref_tree,           \* the tree of the previous load, kept for comparison
  run                 \* which load is running: "elf", "json"

load_vars == << type_info, sym_size, nbytes, tree, stack, load_leaves, load_pc,
                elf_file, load_result, json_doc, ref_tree, run >>

VARIABLES
  ui_event,           \* the last widget used: kind, node, all_sub, any_sub
  nuiops              \* widgets used so far (bounded by MaxUiOps)

ui_vars == << ui_event, nuiops >>

VARIABLES
  points,             \* Line::points
  xscale,             \* Line::xscale as << screen_width, div >>
  plot_mode,          \* Line::mode
  plot_cap,           \* the enqueue_cap of the last call
  plot_ret,           \* the return value of the last call
  plot_calls,         \* calls made so far (bounded by MaxCalls)
  plot_pc             \* "running", or "crashed" after undefined behaviour

plot_vars == << points, xscale, plot_mode, plot_cap, plot_ret, plot_calls,
                plot_pc >>

VARIABLES
  start_offset,       \* the DIE offset resolve_type_iterative is called with
  root_result,        \* slot path |-> TypeInfo
  res_stack,          \* the work stack of resolve_type_iterative
  parsed,             \* DIE offset |-> times the type DIE was parsed
  cache,              \* TypeCache::cache
  res_ref,            \* the result of an earlier call, kept for comparison
  res_run,            \* "first" or "underlying"
  res_pc              \* "running" or "returned"

resolve_vars == << start_offset, root_result, res_stack, parsed, cache,
                   res_ref, res_run, res_pc >>

vars == << sync_vars, load_vars, ui_vars, plot_vars, resolve_vars >>

LeafIds == 1..Len(leaf_list)

(* ----------------------------------------------------------------------- *)
(* Region coalescer                                                        *)
(* ----------------------------------------------------------------------- *)
RECURSIVE collect_loop(_, _, _)
collect_loop(flags, i, out) ==
  IF i > Len(flags) THEN out
  ELSE collect_loop(flags, i + 1, IF flags[i] THEN Append(out, i) ELSE out)

\* faulty variant: the scan starts at the second leaf
collect_dirty_fields_SkipFirst(L, d) ==
  collect_loop([i \in 1..Len(L) |-> d[i]], 2, << >>)

\* out.clear(); push every leaf whose dirty flag is set, in leaf_list order
collect_dirty_fields(L, d) == collect_loop([i \in 1..Len(L) |-> d[i]], 1, << >>)

\* out.clear(); push every leaf whose subscribed flag is set
collect_subscribed_fields(L, s) == collect_loop([i \in 1..Len(L) |-> s[i]], 1, << >>)

\* offset & ~3u
align_down_32(offset) == offset - (offset % WordBytes)

\* faulty variant: the low bits are not masked off
align_up_32_NoMask(offset) == offset + 3

\* (offset + 3u) & ~3u
align_up_32(offset) == align_down_32(offset + 3)

\* faulty variant: a field starting exactly at the end of the region opens a new one
RECURSIVE coalesce_loop_Strict(_, _, _, _, _, _)
coalesce_loop_Strict(L, fields, i, regions, current, current_end) ==
  IF i > Len(fields)
  THEN Append(regions,
              [current EXCEPT !.length = current_end - current.start_offset])
  ELSE LET f == L[fields[i]]
           f_start == align_down_32(f.byte_offset)
           f_end == align_down_32(f.byte_offset + f.nbytes + 3)
       IN IF f_start < current_end
          THEN coalesce_loop_Strict(L, fields, i + 1, regions,
                             [current EXCEPT !.fields = Append(@, fields[i])],
                             IF f_end > current_end THEN f_end ELSE current_end)
          ELSE coalesce_loop_Strict(L, fields, i + 1,
                             Append(regions,
                                    [current EXCEPT !.length =
                                       current_end - current.start_offset]),
                             [start_offset |-> f_start, length |-> 0,
                              fields |-> << fields[i] >>],
                             f_end)

RECURSIVE coalesce_loop(_, _, _, _, _, _)
coalesce_loop(L, fields, i, regions, current, current_end) ==
  IF i > Len(fields)
  THEN Append(regions,
              [current EXCEPT !.length = current_end - current.start_offset])
  ELSE LET f == L[fields[i]]
           f_start == align_down_32(f.byte_offset)
           f_end == align_up_32(f.byte_offset + f.nbytes)
       IN IF f_start <= current_end
          THEN coalesce_loop(L, fields, i + 1, regions,
                             [current EXCEPT !.fields = Append(@, fields[i])],
                             IF f_end > current_end THEN f_end ELSE current_end)
          ELSE coalesce_loop(L, fields, i + 1,
                             Append(regions,
                                    [current EXCEPT !.length =
                                       current_end - current.start_offset]),
                             [start_offset |-> f_start, length |-> 0,
                              fields |-> << fields[i] >>],
                             f_end)

\* the fields are taken in the order given: this variant does not sort
coalesce_fields(L, fields) ==
  IF fields = << >> THEN << >>
  ELSE LET f0 == L[fields[1]]
       IN coalesce_loop(L, fields, 2, << >>,
                        [start_offset |-> align_down_32(f0.byte_offset),
                         length |-> 0, fields |-> << fields[1] >>],
                        align_up_32(f0.byte_offset + f0.nbytes))

build_write_queue(L, dl) == coalesce_fields(L, dl)

build_read_queue(L, sl) == coalesce_fields(L, sl)

(* ----------------------------------------------------------------------- *)
(* Buffer marshaller                                                       *)
(* ----------------------------------------------------------------------- *)
FieldRange(f) == f.byte_offset .. (f.byte_offset + f.nbytes - 1)

\* faulty variant: a whole word is copied whatever the field's size
memcpy_to_buf_Word(buf, f, v) ==
  [p \in DOMAIN buf |->
     IF p \in f.byte_offset .. (f.byte_offset + WordBytes - 1)
     THEN v[p - f.byte_offset] ELSE buf[p]]

\* std::memcpy(dst, &field->value.u8, field->nbytes)
memcpy_to_buf(buf, f, v) ==
  [p \in DOMAIN buf |-> IF p \in FieldRange(f) THEN v[p - f.byte_offset] ELSE buf[p]]

\* std::memcpy(&field->value.u8, src, field->nbytes)
memcpy_to_value(v, f, buf) ==
  [k \in DOMAIN v |-> IF k < f.nbytes THEN buf[f.byte_offset + k] ELSE v[k]]

RECURSIVE to_ctl_loop(_, _, _, _, _, _)
to_ctl_loop(L, val, size, fields, i, buf) ==
  IF i > Len(fields) THEN [ret |-> TRUE, buf |-> buf]
  ELSE LET f == L[fields[i]]
       IN IF f.byte_offset + f.nbytes > size
          THEN [ret |-> FALSE, buf |-> buf]
          ELSE to_ctl_loop(L, val, size, fields, i + 1,
                           memcpy_to_buf(buf, f, val[fields[i]]))

\* faulty variant: a successful staging also clears the dirty flags of the region
sync_fields_to_ctl_buf_ClearsDirty(region) ==
  LET r == IF cfg_nbytes = 0 THEN [ret |-> FALSE, buf |-> ctl_buf]
           ELSE to_ctl_loop(leaf_list, value, cfg_nbytes, region.fields, 1, ctl_buf)
  IN /\ ret' = r.ret
     /\ ctl_buf' = r.buf
     /\ dirty' = [i \in DOMAIN dirty |->
                    IF r.ret /\ \E k \in 1..Len(region.fields) : region.fields[k] = i
                    THEN FALSE ELSE dirty[i]]
     /\ UNCHANGED << subscribed, use_display_scale, value, periph_buf >>

\* leaves the flags and values of every field and the observed buffer alone
sync_fields_to_ctl_buf(region) ==
  LET r == IF cfg_nbytes = 0 THEN [ret |-> FALSE, buf |-> ctl_buf]
           ELSE to_ctl_loop(leaf_list, value, cfg_nbytes, region.fields, 1, ctl_buf)
  IN /\ ret' = r.ret
     /\ ctl_buf' = r.buf
     /\ UNCHANGED << dirty, subscribed, use_display_scale, value, periph_buf >>

RECURSIVE to_fields_loop(_, _, _, _, _, _)
to_fields_loop(L, buf, size, fields, i, val) ==
  IF i > Len(fields) THEN [ret |-> TRUE, value |-> val]
  ELSE LET f == L[fields[i]]
       IN IF f.byte_offset + f.nbytes > size
          THEN [ret |-> FALSE, value |-> val]
          ELSE to_fields_loop(L, buf, size, fields, i + 1,
                              [val EXCEPT ![fields[i]] = memcpy_to_value(@, f, buf)])

\* leaves the flags of every field and both buffers alone
sync_periph_buf_to_fields(region) ==
  LET r == IF cfg_nbytes = 0 THEN [ret |-> FALSE, value |-> value]
           ELSE to_fields_loop(leaf_list, periph_buf, cfg_nbytes, region.fields, 1, value)
  IN /\ ret' = r.ret
     /\ value' = r.value
     /\ UNCHANGED << dirty, subscribed, use_display_scale, ctl_buf, periph_buf >>

\* faulty variant: the first field of the region keeps its flag
clear_dirty_flags_SkipFirst(region) ==
  /\ dirty' = [i \in DOMAIN dirty |->
                 IF \E k \in 2..Len(region.fields) : region.fields[k] = i
                 THEN FALSE ELSE dirty[i]]
  /\ UNCHANGED << subscribed, use_display_scale, value, ctl_buf, periph_buf >>

\* field->dirty = false for every field of the region
clear_dirty_flags(region) ==
  /\ dirty' = [i \in DOMAIN dirty |->
                 IF \E k \in 1..Len(region.fields) : region.fields[k] = i
                 THEN FALSE ELSE dirty[i]]
  /\ UNCHANGED << subscribed, use_display_scale, value, ctl_buf, periph_buf >>

(* ----------------------------------------------------------------------- *)
(* Transport (external): whole byte ranges between a mirror buffer and the *)
(* device                                                                  *)
(* ----------------------------------------------------------------------- *)
RegionRange(r) == r.start_offset .. (r.start_offset + r.length - 1)

transport_write(d, buf, r) ==
  [p \in DOMAIN d |-> IF p \in RegionRange(r) /\ p \in DOMAIN buf THEN buf[p] ELSE d[p]]

transport_read(buf, d, r) ==
  [p \in DOMAIN buf |-> IF p \in RegionRange(r) /\ p \in DOMAIN d THEN d[p] ELSE buf[p]]

(* ----------------------------------------------------------------------- *)
(* Live Expressions view: value handlers and subscribe checkboxes          *)
(* ----------------------------------------------------------------------- *)
\* width of the union member a handler edits
FieldWidth(type) ==
  CASE type \in {"INT8", "UINT8"} -> 1
    [] type \in {"INT16", "UINT16"} -> 2
    [] type \in {"FLOAT", "INT32", "UINT32", "ENUM"} -> 4
    [] type \in {"DOUBLE", "INT64", "UINT64"} -> 8
    [] OTHER -> 0

\* the bytes of the number typed by the user, stored through the typed member
TypedBytes(v, k) == IF k % 2 = 0 THEN v ELSE 3 - v

StoreTyped(old, type, v) ==
  [k \in DOMAIN old |-> IF k < FieldWidth(type) THEN TypedBytes(v, k) ELSE old[k]]

\* float_field_handler, int32_field_handler, ...: one call for a rendered leaf.
\* edited = ImGui::IsItemDeactivatedAfterEdit() for this leaf in this frame.
field_handler(type, uds, d, val, edited, v) ==
  IF FieldWidth(type) = 0 THEN [dirty |-> d, value |-> val]
  ELSE IF ~uds
       THEN [dirty |-> edited,
             value |-> IF edited THEN StoreTyped(val, type, v) ELSE val]
       ELSE IF edited
            THEN [dirty |-> TRUE, value |-> StoreTyped(val, type, v)]
            ELSE [dirty |-> d, value |-> val]

all_children_subscribed(s) == \A i \in DOMAIN s : s[i]

set_subscribed_all(s, b) == [i \in DOMAIN s |-> b]

\* c = 0: no click; c in 1..N: the leaf's checkbox; c = N+1: the root's checkbox
click_subscribe(s, c) ==
  IF c = 0 THEN s
  ELSE IF c \in DOMAIN s THEN [s EXCEPT ![c] = ~@]
  ELSE set_subscribed_all(s, ~all_children_subscribed(s))

(* ----------------------------------------------------------------------- *)
(* Synchronization cycle                                                   *)
(* ----------------------------------------------------------------------- *)
ZeroBuf(n) == [p \in 0..(n - 1) |-> 0]

ZeroValue == [k \in 0..(ValueSlotBytes - 1) |-> 0]

\* state after load_dartt_config / elf_parser_load_config and allocate_buffers;
\* use_display_scale is read from the file's "ui" block
InitSync ==
  /\ \E lay \in Layouts :
       /\ leaf_list = lay.leaves
       /\ cfg_nbytes = lay.nbytes
       /\ ctl_buf = ZeroBuf(lay.nbytes)
       /\ periph_buf = ZeroBuf(lay.nbytes)
       /\ dev = ZeroBuf(lay.devbytes)
       /\ dirty = [i \in 1..Len(lay.leaves) |-> FALSE]
       /\ subscribed = [i \in 1..Len(lay.leaves) |-> FALSE]
       /\ \E u \in BOOLEAN : use_display_scale = [i \in 1..Len(lay.leaves) |-> u]
       /\ value = [i \in 1..Len(lay.leaves) |-> ZeroValue]
  /\ dirty_list = << >>
  /\ subscribed_list = << >>
  /\ write_queue = << >>
  /\ read_queue = << >>
  /\ qi = 0
  /\ pc = "ui"
  /\ last_op = "idle"
  /\ ret = TRUE
  /\ acked = 0
  /\ nedits = 0
  /\ nclicks = 0

\* render_field_tree: every leaf's handler runs once; at most one input box is
\* deactivated after an edit (leaf e, number v) and at most one checkbox is
\* clicked (c) in a frame
RenderFrame(e, v, c) ==
  /\ pc = "ui"
  /\ e # 0 => nedits < MaxEdits
  /\ c # 0 => nclicks < MaxClicks
  /\ LET h(i) == field_handler(leaf_list[i].type, use_display_scale[i],
                               dirty[i], value[i], e = i, v)
     IN /\ dirty' = [i \in LeafIds |-> h(i).dirty]
        /\ value' = [i \in LeafIds |-> h(i).value]
  /\ subscribed' = click_subscribe(subscribed, c)
  /\ nedits' = IF e # 0 THEN nedits + 1 ELSE nedits
  /\ nclicks' = IF c # 0 THEN nclicks + 1 ELSE nclicks
  /\ pc' = "coalesce_w"
  /\ last_op' = "render"
  /\ UNCHANGED << leaf_list, cfg_nbytes, use_display_scale, ctl_buf, periph_buf,
                  dev, dirty_list, subscribed_list, write_queue, read_queue,
                  qi, ret, acked >>
  /\ UNCHANGED << load_vars, ui_vars, plot_vars, resolve_vars >>

NextWrite(n) == IF n > Len(write_queue) THEN "coalesce_r" ELSE "stage"

NextRead(n) == IF n > Len(read_queue) THEN "end" ELSE "rx"

\* collect_dirty_fields(leaf_list, dirty_list); build_write_queue(config)
BuildWriteQueue ==
  /\ pc = "coalesce_w"
  /\ dirty_list' = collect_dirty_fields(leaf_list, dirty)
  /\ write_queue' = build_write_queue(leaf_list, dirty_list')
  /\ qi' = 1
  /\ acked' = 0
  /\ pc' = IF write_queue' = << >> THEN "coalesce_r" ELSE "stage"
  /\ last_op' = "build_write"
  /\ UNCHANGED << leaf_list, cfg_nbytes, dirty, subscribed, use_display_scale,
                  value, ctl_buf, periph_buf, dev, subscribed_list, read_queue,
                  ret, nedits, nclicks >>
  /\ UNCHANGED << load_vars, ui_vars, plot_vars, resolve_vars >>

\* stage_for_write: sync_fields_to_ctl_buf(config, region); a refused region
\* is skipped
StageForWrite ==
  /\ pc = "stage"
  /\ sync_fields_to_ctl_buf(write_queue[qi])
  /\ pc' = IF ret' THEN "tx" ELSE NextWrite(qi + 1)
  /\ qi' = IF ret' THEN qi ELSE qi + 1
  /\ last_op' = "to_wire"
  /\ UNCHANGED << leaf_list, cfg_nbytes, dev, dirty_list, subscribed_list,
                  write_queue, read_queue, acked, nedits, nclicks >>
  /\ UNCHANGED << load_vars, ui_vars, plot_vars, resolve_vars >>

\* the blocking transport write of the region; ok is the transport's answer
TransportWrite(ok) ==
  /\ pc = "tx"
  /\ IF ok
     THEN /\ dev' = transport_write(dev, ctl_buf, write_queue[qi])
          /\ pc' = "ack"
          /\ qi' = qi
          /\ last_op' = "tx_ok"
     ELSE /\ dev' = dev
          /\ pc' = NextWrite(qi + 1)
          /\ qi' = qi + 1
          /\ last_op' = "tx_fail"
  /\ UNCHANGED << leaf_list, cfg_nbytes, dirty, subscribed, use_display_scale,
                  value, ctl_buf, periph_buf, dirty_list, subscribed_list,
                  write_queue, read_queue, ret, acked, nedits, nclicks >>
  /\ UNCHANGED << load_vars, ui_vars, plot_vars, resolve_vars >>

\* acknowledge_write: clear_dirty_flags(region) after the transport confirmed
\* the write
AcknowledgeWrite ==
  /\ pc = "ack"
  /\ clear_dirty_flags(write_queue[qi])
  /\ acked' = acked + 1
  /\ qi' = qi + 1
  /\ pc' = NextWrite(qi + 1)
  /\ last_op' = "ack"
  /\ UNCHANGED << leaf_list, cfg_nbytes, dev, dirty_list, subscribed_list,
                  write_queue, read_queue, ret, nedits, nclicks >>
  /\ UNCHANGED << load_vars, ui_vars, plot_vars, resolve_vars >>

\* collect_subscribed_fields(leaf_list, subscribed_list); build_read_queue(config)
BuildReadQueue ==
  /\ pc = "coalesce_r"
  /\ subscribed_list' = collect_subscribed_fields(leaf_list, subscribed)
  /\ read_queue' = build_read_queue(leaf_list, subscribed_list')
  /\ qi' = 1
  /\ pc' = IF read_queue' = << >> THEN "end" ELSE "rx"
  /\ last_op' = "build_read"
  /\ UNCHANGED << leaf_list, cfg_nbytes, dirty, subscribed, use_display_scale,
                  value, ctl_buf, periph_buf, dev, dirty_list, write_queue,
                  ret, acked, nedits, nclicks >>
  /\ UNCHANGED << load_vars, ui_vars, plot_vars, resolve_vars >>

\* the blocking transport read of the region into the observed buffer
TransportRead(ok) ==
  /\ pc = "rx"
  /\ IF ok
     THEN /\ periph_buf' = transport_read(periph_buf, dev, read_queue[qi])
          /\ pc' = "apply"
          /\ qi' = qi
          /\ last_op' = "rx_ok"
     ELSE /\ periph_buf' = periph_buf
          /\ pc' = NextRead(qi + 1)
          /\ qi' = qi + 1
          /\ last_op' = "rx_fail"
  /\ UNCHANGED << leaf_list, cfg_nbytes, dirty, subscribed, use_display_scale,
                  value, ctl_buf, dev, dirty_list, subscribed_list,
                  write_queue, read_queue, ret, acked, nedits, nclicks >>
  /\ UNCHANGED << load_vars, ui_vars, plot_vars, resolve_vars >>

\* apply_from_read: sync_periph_buf_to_fields(config, region)
ApplyFromRead ==
  /\ pc = "apply"
  /\ sync_periph_buf_to_fields(read_queue[qi])
  /\ qi' = qi + 1
  /\ pc' = NextRead(qi + 1)
  /\ last_op' = "from_wire"
  /\ UNCHANGED << leaf_list, cfg_nbytes, dev, dirty_list, subscribed_list,
                  write_queue, read_queue, acked, nedits, nclicks >>
  /\ UNCHANGED << load_vars, ui_vars, plot_vars, resolve_vars >>

\* end of the frame: the region vectors, locals of the cycle, are destroyed
EndCycle ==
  /\ pc = "end"
  /\ write_queue' = << >>
  /\ read_queue' = << >>
  /\ qi' = 0
  /\ acked' = 0
  /\ ret' = TRUE
  /\ pc' = "ui"
  /\ last_op' = "idle"
  /\ UNCHANGED << leaf_list, cfg_nbytes, dirty, subscribed, use_display_scale,
                  value, ctl_buf, periph_buf, dev, dirty_list, subscribed_list,
                  nedits, nclicks >>
  /\ UNCHANGED << load_vars, ui_vars, plot_vars, resolve_vars >>

\* no load is running in the synchronization model
LoadIdle ==
  /\ type_info = << >>
  /\ sym_size = 0
  /\ nbytes = 0
  /\ tree = << >>
  /\ stack = << >>
  /\ load_leaves = << >>
  /\ load_pc = "idle"
  /\ elf_file = << >>
  /\ load_result = "none"
  /\ json_doc = << >>
  /\ ref_tree = << >>
  /\ run = "none"

\* no widget has been used
UiIdle ==
  /\ ui_event = [kind |-> "none", node |-> << >>, all_sub |-> FALSE,
                 any_sub |-> FALSE]
  /\ nuiops = 0

\* no plot line exists
PlotIdle ==
  /\ points = << >>
  /\ plot_mode = "XY_MODE"
  /\ xscale = << 0, 1 >>
  /\ plot_cap = 0
  /\ plot_ret = FALSE
  /\ plot_calls = 0
  /\ plot_pc = "idle"

\* no type is being resolved
ResolveIdle ==
  /\ start_offset = 0
  /\ root_result = << >>
  /\ res_stack = << >>
  /\ parsed = << >>
  /\ cache = << >>
  /\ res_ref = << >>
  /\ res_run = "none"
  /\ res_pc = "idle"

Init == InitSync /\ LoadIdle /\ UiIdle /\ PlotIdle /\ ResolveIdle

Next ==
  \/ \E e \in 0..Len(leaf_list), v \in EditVals, c \in 0..(Len(leaf_list) + 1) :
       RenderFrame(e, v, c)
  \/ BuildWriteQueue
  \/ StageForWrite
  \/ \E ok \in BOOLEAN : TransportWrite(ok)
  \/ AcknowledgeWrite
  \/ BuildReadQueue
  \/ \E ok \in BOOLEAN : TransportRead(ok)
  \/ ApplyFromRead
  \/ EndCycle

Spec == Init /\ [][Next]_vars

(* ======================================================================= *)
(* Loading a configuration from debug metadata (elf_parser_load_config)    *)
(* ======================================================================= *)

(* ----------------------------------------------------------------------- *)
(* Type names.  A std::string holding a type name is a sequence of tokens: *)
(* identifiers (base-type and typedef names are one token, "unsigned char" *)
(* included; consecutive identifier tokens are separated by a space), the  *)
(* pointer suffix "*" and the dimension suffix "[n]".                       *)
(* ----------------------------------------------------------------------- *)
Tok(s) == [s |-> s, n |-> 0]

Dim(d) == [s |-> "[]", n |-> d]

IsIdent(t) == t.s # "[]" /\ t.s # "*"

\* parse_field_type(type_str)
parse_field_type(type_str) ==
  LET one == IF Len(type_str) = 1 THEN type_str[1].s ELSE "" IN
  IF one = "float" THEN "FLOAT"
  ELSE IF one = "double" THEN "DOUBLE"
  ELSE IF one \in {"int8_t", "signed char"} THEN "INT8"
  ELSE IF one \in {"uint8_t", "unsigned char"} THEN "UINT8"
  ELSE IF one \in {"int16_t", "short", "short int"} THEN "INT16"
  ELSE IF one \in {"uint16_t", "unsigned short", "unsigned short int"}
    THEN "UINT16"
  ELSE IF one \in {"int32_t", "int", "long", "long int"} THEN "INT32"
  ELSE IF one \in {"uint32_t", "unsigned int", "unsigned long",
                   "unsigned long int", "long unsigned int"} THEN "UINT32"
  ELSE IF one \in {"int64_t", "long long", "long long int"} THEN "INT64"
  ELSE IF one \in {"uint64_t", "unsigned long long",
                   "unsigned long long int"} THEN "UINT64"
  ELSE IF one = "struct" THEN "STRUCT"
  ELSE IF one = "union" THEN "UNION"
  ELSE IF one = "array" THEN "ARRAY"
  ELSE IF one = "pointer" THEN "POINTER"
  ELSE IF one = "enum" THEN "ENUM"
  ELSE IF Len(type_str) > 0 /\ type_str[Len(type_str)].s = "*" THEN "POINTER"
  ELSE IF Len(type_str) > 1 /\ IsIdent(type_str[2])
    THEN (IF type_str[1].s = "struct" THEN "STRUCT"
          ELSE IF type_str[1].s = "union" THEN "UNION"
          ELSE IF type_str[1].s = "enum" THEN "ENUM"
          ELSE "UNKNOWN")
  ELSE "UNKNOWN"

(* ----------------------------------------------------------------------- *)
(* TypeInfo as resolve_type_iterative leaves it: the array case never      *)
(* assigns size, so an array's TypeInfo keeps the constructor's size 0; a  *)
(* typedef stores its name in typedef_name of the underlying type's slot.  *)
(* ----------------------------------------------------------------------- *)
NoType == [type |-> "null", name |-> "", typedef_name |-> "", size |-> 0,
           dimensions |-> << >>, total_elements |-> 0, fields |-> << >>,
           pointee |-> << >>]

FieldInfo(n, o, ti) == [name |-> n, byte_offset |-> o, type_info |-> ti]

\* TypeInfo::TypeInfo(): what a member without a type attribute keeps
DefaultType == [NoType EXCEPT !.type = "", !.pointee = NoType]

\* DW_TAG_base_type: type and name are the DIE's name, size its byte size
BaseType(n, sz) == [NoType EXCEPT !.type = n, !.name = n, !.size = sz,
                                  !.pointee = NoType]

\* DW_TAG_typedef: the underlying type resolved into the same slot
Typedef(n, ti) == [ti EXCEPT !.typedef_name = n]

RECURSIVE Product(_)
Product(dims) ==
  IF dims = << >> THEN 1 ELSE Head(dims) * Product(Tail(dims))

\* DW_TAG_array_type
ArrayType(elem, dims) ==
  [NoType EXCEPT !.type = "array", !.dimensions = dims,
                 !.total_elements = Product(dims),
                 !.fields = << FieldInfo("__element_type__", 0, elem) >>,
                 !.pointee = NoType]

\* DW_TAG_structure_type / DW_TAG_union_type
StructType(kind, n, sz, members) ==
  [NoType EXCEPT !.type = kind, !.name = n, !.size = sz, !.fields = members,
                 !.pointee = NoType]

\* DW_TAG_pointer_type
PointerType(sz, target) ==
  [NoType EXCEPT !.type = "pointer", !.size = sz, !.pointee = target]

\* DW_TAG_enumeration_type
EnumType(n, sz) ==
  [NoType EXCEPT !.type = "enum", !.name = n, !.size = sz, !.pointee = NoType]

T_float == BaseType("float", 4)
T_int32 == Typedef("int32_t", BaseType("int", 4))
T_uint32 == Typedef("uint32_t", BaseType("unsigned int", 4))
T_int16 == Typedef("int16_t", BaseType("short int", 2))
T_uint16 == Typedef("uint16_t", BaseType("short unsigned int", 2))
T_uint8 == Typedef("uint8_t", BaseType("unsigned char", 1))
T_real == Typedef("real_t", BaseType("float", 4))

T_thing ==
  StructType("struct", "thing_t", 16,
             << FieldInfo("v", 0, ArrayType(T_float, << 3 >>)),
                FieldInfo("val", 12, T_int32) >>)

\* the symbols offered to the loader: the resolved type and sizeof it
LoadInputs ==
  { \* struct { float a; int32_t b; uint32_t c; int16_t d1; int16_t d2;
    \*          uint8_t exarr[8]; thing_t thing1; thing_t thing_array[3]; }
    [ti |-> StructType("struct", "example_t", 88,
              << FieldInfo("a", 0, T_float),
                 FieldInfo("b", 4, T_int32),
                 FieldInfo("c", 8, T_uint32),
                 FieldInfo("d1", 12, T_int16),
                 FieldInfo("d2", 14, T_int16),
                 FieldInfo("exarr", 16, ArrayType(T_uint8, << 8 >>)),
                 FieldInfo("thing1", 24, T_thing),
                 FieldInfo("thing_array", 40, ArrayType(T_thing, << 3 >>)) >>),
     sizeof |-> 88],
    \* union { struct { uint32_t a; uint32_t b; } s; uint16_t e; }
    [ti |-> StructType("union", "", 8,
              << FieldInfo("s", 0, StructType("struct", "", 8,
                                     << FieldInfo("a", 0, T_uint32),
                                        FieldInfo("b", 4, T_uint32) >>)),
                 FieldInfo("e", 0, T_uint16) >>),
     sizeof |-> 8],
    \* struct { uint16_t n; uint8_t data[]; int16_t m[2][3]; void *p;
    \*          enum mode md; <member without a type> }
    [ti |-> StructType("struct", "misc_t", 24,
              << FieldInfo("n", 0, T_uint16),
                 FieldInfo("m", 2, ArrayType(T_int16, << 2, 3 >>)),
                 FieldInfo("p", 16, PointerType(4, NoType)),
                 FieldInfo("md", 20, EnumType("mode", 4)),
                 FieldInfo("q", 0, DefaultType),
                 FieldInfo("data", 24, ArrayType(T_uint8, << 0 >>)) >>),
     sizeof |-> 24],
    \* float gain;
    [ti |-> T_float, sizeof |-> 4],
    \* uint32_t table[4];
    [ti |-> ArrayType(T_uint32, << 4 >>), sizeof |-> 16],
    \* typedef thing_t things_t[2]; things_t things;
    [ti |-> Typedef("things_t", ArrayType(T_thing, << 2 >>)), sizeof |-> 32],
    \* struct { double t; double u; int16_t trio[3]; real_t gains[2];
    \*          flag_t flag; }   with typedef float real_t and a one-byte enum
    [ti |-> StructType("struct", "tuning_t", 40,
              << FieldInfo("t", 0, BaseType("double", 8)),
                 FieldInfo("u", 8, BaseType("double", 8)),
                 FieldInfo("trio", 16, ArrayType(T_int16, << 3 >>)),
                 FieldInfo("gains", 24, ArrayType(T_real, << 2 >>)),
                 FieldInfo("flag", 32, Typedef("flag_t", EnumType("", 1))) >>),
     sizeof |-> 40],
    \* long double big;   (a base type of 16 bytes)
    [ti |-> BaseType("long double", 16), sizeof |-> 16] }

(* ----------------------------------------------------------------------- *)
(* The DarttField tree: path (child indices from the root) |-> node        *)
(* ----------------------------------------------------------------------- *)
\* DarttField::DarttField()
DefaultField ==
  [name |-> Tok(""), byte_offset |-> 0, dartt_offset |-> 0, nbytes |-> 0,
   type |-> "UNKNOWN", type_name |-> << >>, array_size |-> 0,
   element_nbytes |-> 0, nchildren |-> 0, subscribed |-> FALSE,
   expanded |-> FALSE, display_scale |-> 1, use_display_scale |-> FALSE]

\* f.children.resize(n) on a node without children
resize_children(t, p, n) ==
  [q \in DOMAIN t \cup { Append(p, i) : i \in 1..n } |->
     IF q = p THEN [t[p] EXCEPT !.nchildren = n]
     ELSE IF q \in DOMAIN t THEN t[q]
     ELSE DefaultField]

RECURSIVE dims_suffix(_)
dims_suffix(dims) ==
  IF dims = << >> THEN << >>
  ELSE << Dim(Head(dims)) >> \o dims_suffix(Tail(dims))

RECURSIVE get_simple_type_name(_)
get_simple_type_name(ti) ==
  IF ti.typedef_name # "" THEN << Tok(ti.typedef_name) >>
  ELSE IF ti.type = "pointer"
    THEN (IF ti.pointee.type # "null"
          THEN get_simple_type_name(ti.pointee) \o << Tok("*") >>
          ELSE << Tok("void"), Tok("*") >>)
  ELSE IF ti.type = "array"
    THEN (IF ti.fields # << >> /\ ti.fields[1].type_info.type # "null"
          THEN get_simple_type_name(ti.fields[1].type_info)
          ELSE << >>) \o dims_suffix(ti.dimensions)
  ELSE IF ti.type \in {"struct", "union"}
    THEN (IF ti.name # "" THEN << Tok(ti.type), Tok(ti.name) >>
          ELSE << Tok(ti.type) >>)
  ELSE IF ti.type = "enum"
    THEN (IF ti.name # "" THEN << Tok("enum"), Tok(ti.name) >>
          ELSE << Tok("enum") >>)
  ELSE << Tok(ti.type) >>

\* faulty variant: the parent's absolute offset is not passed on
ConvertWork_NoBase(ti, has_fi, fi, out, base) ==
  [type_info |-> ti, has_field_info |-> has_fi, field_info |-> fi,
   out_field |-> out, base_byte_offset |-> 0]

ConvertWork(ti, has_fi, fi, out, base) ==
  [type_info |-> ti, has_field_info |-> has_fi, field_info |-> fi,
   out_field |-> out, base_byte_offset |-> base]

\* the members of ti pushed in reverse order, those without type_info skipped
RECURSIVE push_members(_, _, _, _)
push_members(ti, p, abs, i) ==
  IF i = 0 THEN << >>
  ELSE (IF ti.fields[i].type_info.type # "null"
        THEN << ConvertWork(ti.fields[i].type_info, TRUE, ti.fields[i],
                            Append(p, i), abs) >>
        ELSE << >>) \o push_members(ti, p, abs, i - 1)

RECURSIVE push_children(_, _)
push_children(p, i) ==
  IF i = 0 THEN << >> ELSE << Append(p, i) >> \o push_children(p, i - 1)

Pop(s) == SubSeq(s, 1, Len(s) - 1)

Top(s) == s[Len(s)]

\* The file and symbol elf_parser_load_config is called with.  dwarf is the
\* outcome of dwarf_init_path on the file: "ok", "none" (DW_DLV_NO_ENTRY) or
\* "error" (DW_DLV_ERROR).  A file ELFIO cannot load has no symbol table and
\* no debug metadata to look at; a variable DIE needs debug metadata.
ElfFiles ==
  { f \in [null_args : BOOLEAN, is_elf : BOOLEAN,
           dwarf : {"ok", "none", "error"}, has_symbol : BOOLEAN,
           has_var_die : BOOLEAN] :
      /\ ~f.is_elf => (f.dwarf = "none" /\ ~f.has_symbol)
      /\ f.dwarf # "ok" => ~f.has_var_die }

\* the symbol table's st_size and the type the variable's DIE resolves to
InitLoad ==
  /\ \E f \in ElfFiles, inp \in LoadInputs :
       /\ elf_file = f
       /\ type_info = IF f.has_var_die THEN inp.ti ELSE NoType
       /\ sym_size \in IF f.has_symbol THEN {0, inp.sizeof} ELSE {0}
  /\ nbytes = 0
  /\ tree = [p \in { << >> } |-> DefaultField]
  /\ stack = << >>
  /\ load_leaves = << >>
  /\ load_pc = "start"
  /\ load_result = "none"
  /\ json_doc = << >>
  /\ ref_tree = << >>
  /\ run = "elf"

\* faulty variant: a libdwarf error is treated like missing debug metadata
elf_parser_init_LenientDwarf(f) ==
  IF ~f.is_elf
  THEN [err |-> "ELF_PARSE_NOT_ELF", dwarf_initialized |-> FALSE]
  ELSE [err |-> "ELF_PARSE_SUCCESS", dwarf_initialized |-> f.dwarf = "ok"]

\* elf_parser_init(parser, path)
elf_parser_init(f) ==
  IF ~f.is_elf
  THEN [err |-> "ELF_PARSE_NOT_ELF", dwarf_initialized |-> FALSE]
  ELSE IF f.dwarf = "none"
  THEN [err |-> "ELF_PARSE_SUCCESS", dwarf_initialized |-> FALSE]
  ELSE IF f.dwarf = "error"
  THEN [err |-> "ELF_PARSE_NO_DWARF", dwarf_initialized |-> FALSE]
  ELSE [err |-> "ELF_PARSE_SUCCESS", dwarf_initialized |-> TRUE]

\* the code elf_parser_load_config returns before resolving the type, or
\* "none" when it goes on (resolve_type_iterative always returns a TypeInfo,
\* so ELF_PARSE_TYPE_ERROR is never returned)
load_config_error(f) ==
  IF f.null_args THEN "ELF_PARSE_ERROR"
  ELSE IF elf_parser_init(f).err # "ELF_PARSE_SUCCESS"
  THEN elf_parser_init(f).err
  ELSE IF ~f.has_symbol THEN "ELF_PARSE_SYMBOL_NOT_FOUND"
  ELSE IF ~elf_parser_init(f).dwarf_initialized THEN "ELF_PARSE_NO_DWARF"
  ELSE IF ~f.has_var_die THEN "ELF_PARSE_NO_DEBUG_INFO"
  ELSE "none"

\* elf_parser_load_config up to the resolved type: an early return, or on
\* to "Set size"
OpenAndResolve ==
  /\ load_pc = "start"
  /\ load_result' = load_config_error(elf_file)
  /\ load_pc' = IF load_config_error(elf_file) = "none" THEN "resolved"
                ELSE "failed"
  /\ UNCHANGED << elf_file, type_info, sym_size, nbytes, tree, stack,
                  load_leaves, json_doc, ref_tree, run >>
  /\ UNCHANGED << sync_vars, ui_vars, plot_vars, resolve_vars >>

\* elf_parser_load_config from "Set size" to the call of
\* type_info_to_dartt_field, whose first statement pushes the root
SetSize ==
  /\ load_pc = "resolved"
  /\ nbytes' = IF sym_size > 0 THEN sym_size ELSE type_info.size
  /\ tree' = [tree EXCEPT ![<< >>].name = Tok("symbol")]
  /\ stack' = << ConvertWork(type_info, FALSE, FieldInfo("", 0, NoType),
                             << >>, 0) >>
  /\ load_pc' = "convert"
  /\ UNCHANGED << elf_file, load_result, type_info, sym_size, load_leaves,
                  json_doc, ref_tree, run >>
  /\ UNCHANGED << sync_vars, ui_vars, plot_vars, resolve_vars >>

\* one iteration of the loop of type_info_to_dartt_field
type_info_to_dartt_field ==
  /\ load_pc = "convert"
  /\ stack # << >>
  /\ LET work == Top(stack)
         ti == work.type_info
         p == work.out_field
         abs_byte_offset ==
           IF work.has_field_info
           THEN work.base_byte_offset + work.field_info.byte_offset
           ELSE work.base_byte_offset
         elem == ti.fields[1].type_info
         has_elem == ti.fields # << >> /\ elem.type # "null"
         elem_composite == has_elem /\ elem.type \in {"struct", "union"}
         field ==
           [tree[p] EXCEPT
              !.name = IF work.has_field_info THEN Tok(work.field_info.name)
                       ELSE @,
              !.byte_offset = abs_byte_offset,
              !.dartt_offset = abs_byte_offset \div 4,
              !.nbytes = ti.size,
              !.type_name =
                IF ti.type = "array" /\ has_elem /\ ~elem_composite
                THEN get_simple_type_name(elem)
                ELSE get_simple_type_name(ti),
              !.type =
                IF ti.type = "array" /\ has_elem /\ ~elem_composite
                THEN parse_field_type(<< Tok(elem.type) >>)
                ELSE parse_field_type(<< Tok(ti.type) >>),
              !.array_size = IF ti.type = "array" THEN ti.total_elements
                             ELSE @,
              !.element_nbytes = IF ti.type = "array" /\ has_elem
                                 THEN elem.size ELSE @]
         t1 == [tree EXCEPT ![p] = field]
     IN IF ti.type \in {"struct", "union"}
        THEN /\ tree' = resize_children(t1, p, Len(ti.fields))
             /\ stack' = Pop(stack)
                           \o push_members(ti, p, abs_byte_offset,
                                           Len(ti.fields))
        ELSE IF ti.type = "array" /\ elem_composite
        THEN /\ tree' = resize_children(t1, p, 1)
             /\ stack' = Append(Pop(stack),
                                ConvertWork(elem, FALSE,
                                            FieldInfo("", 0, NoType),
                                            Append(p, 1), abs_byte_offset))
        ELSE /\ tree' = t1
             /\ stack' = Pop(stack)
  /\ UNCHANGED << elf_file, load_result, type_info, sym_size, nbytes,
                  load_leaves, load_pc, json_doc, ref_tree, run >>
  /\ UNCHANGED << sync_vars, ui_vars, plot_vars, resolve_vars >>

\* type_info_to_dartt_field returns; expand_array_elements pushes the root
ExpandBegin ==
  /\ load_pc = "convert"
  /\ stack = << >>
  /\ stack' = << << >> >>
  /\ load_pc' = "expand"
  /\ UNCHANGED << elf_file, load_result, type_info, sym_size, nbytes, tree,
                  load_leaves, json_doc, ref_tree, run >>
  /\ UNCHANGED << sync_vars, ui_vars, plot_vars, resolve_vars >>

\* faulty variant: the elements are counted from one
expanded_children_FromOne(t, p) ==
  LET f == t[p]
      elem_type == parse_field_type(f.type_name)
  IN [q \in DOMAIN t \cup { Append(p, i) : i \in 1..f.array_size } |->
        IF q = p THEN [f EXCEPT !.nchildren = f.array_size]
        ELSE IF q \in DOMAIN t THEN t[q]
        ELSE LET i == q[Len(q)] IN
             [DefaultField EXCEPT
                !.name = Dim(i),
                !.byte_offset = f.byte_offset + i * f.element_nbytes,
                !.dartt_offset = (f.byte_offset + i * f.element_nbytes) \div 4,
                !.nbytes = f.element_nbytes,
                !.type = elem_type,
                !.type_name = f.type_name]]

\* the children expand_array_elements creates for the array node f at p
expanded_children(t, p) ==
  LET f == t[p]
      elem_type == parse_field_type(f.type_name)
  IN [q \in DOMAIN t \cup { Append(p, i) : i \in 1..f.array_size } |->
        IF q = p THEN [f EXCEPT !.nchildren = f.array_size]
        ELSE IF q \in DOMAIN t THEN t[q]
        ELSE LET i == q[Len(q)] - 1 IN
             [DefaultField EXCEPT
                !.name = Dim(i),
                !.byte_offset = f.byte_offset + i * f.element_nbytes,
                !.dartt_offset = (f.byte_offset + i * f.element_nbytes) \div 4,
                !.nbytes = f.element_nbytes,
                !.type = elem_type,
                !.type_name = f.type_name]]

\* faulty variant: an array node that already has children is grown by
\* array_size further children
expand_array_elements_Regrow ==
  /\ load_pc = "expand"
  /\ stack # << >>
  /\ LET p == Top(stack)
         f == tree[p]
         n == f.nchildren + f.array_size
         t1 == IF f.array_size > 0 /\ f.element_nbytes > 0
               THEN [q \in DOMAIN tree \cup { Append(p, i) : i \in 1..n } |->
                       IF q = p THEN [f EXCEPT !.nchildren = n]
                       ELSE IF q \in DOMAIN tree THEN tree[q]
                       ELSE [DefaultField EXCEPT
                               !.name = Dim(q[Len(q)] - 1),
                               !.nbytes = f.element_nbytes]]
               ELSE tree
     IN /\ tree' = t1
        /\ stack' = Pop(stack) \o push_children(p, t1[p].nchildren)
  /\ UNCHANGED << elf_file, load_result, type_info, sym_size, nbytes,
                  load_leaves, load_pc, json_doc, ref_tree, run >>
  /\ UNCHANGED << sync_vars, ui_vars, plot_vars, resolve_vars >>

\* one iteration of the loop of expand_array_elements
expand_array_elements ==
  /\ load_pc = "expand"
  /\ stack # << >>
  /\ LET p == Top(stack)
         f == tree[p]
         t1 == IF f.array_size > 0 /\ f.nchildren = 0 /\ f.element_nbytes > 0
               THEN expanded_children(tree, p)
               ELSE tree
     IN /\ tree' = t1
        /\ stack' = Pop(stack) \o push_children(p, t1[p].nchildren)
  /\ UNCHANGED << elf_file, load_result, type_info, sym_size, nbytes,
                  load_leaves, load_pc, json_doc, ref_tree, run >>
  /\ UNCHANGED << sync_vars, ui_vars, plot_vars, resolve_vars >>

\* expand_array_elements returns; collect_leaves pushes the root
CollectBegin ==
  /\ load_pc = "expand"
  /\ stack = << >>
  /\ run # "again"
  /\ stack' = << << >> >>
  /\ load_pc' = "collect"
  /\ UNCHANGED << elf_file, load_result, type_info, sym_size, nbytes, tree,
                  load_leaves, json_doc, ref_tree, run >>
  /\ UNCHANGED << sync_vars, ui_vars, plot_vars, resolve_vars >>

\* faulty variant: the children are pushed first to last
collect_leaves_Forward ==
  /\ load_pc = "collect"
  /\ stack # << >>
  /\ LET p == Top(stack) IN
       IF tree[p].nchildren = 0
       THEN /\ load_leaves' = Append(load_leaves, p)
            /\ stack' = Pop(stack)
       ELSE /\ load_leaves' = load_leaves
            /\ stack' = Pop(stack)
                          \o [i \in 1..tree[p].nchildren |-> Append(p, i)]
  /\ UNCHANGED << elf_file, load_result, type_info, sym_size, nbytes, tree,
                  load_pc, json_doc, ref_tree, run >>
  /\ UNCHANGED << sync_vars, ui_vars, plot_vars, resolve_vars >>

\* one iteration of the loop of collect_leaves
collect_leaves ==
  /\ load_pc = "collect"
  /\ stack # << >>
  /\ LET p == Top(stack) IN
       IF tree[p].nchildren = 0
       THEN /\ load_leaves' = Append(load_leaves, p)
            /\ stack' = Pop(stack)
       ELSE /\ load_leaves' = load_leaves
            /\ stack' = Pop(stack) \o push_children(p, tree[p].nchildren)
  /\ UNCHANGED << elf_file, load_result, type_info, sym_size, nbytes, tree,
                  load_pc, json_doc, ref_tree, run >>
  /\ UNCHANGED << sync_vars, ui_vars, plot_vars, resolve_vars >>

\* expand_array_elements is called a second time on the tree
\* elf_parser_load_config returned; its first statement pushes the root
ExpandAgain ==
  /\ load_pc = "done"
  /\ run = "elf"
  /\ ref_tree' = tree
  /\ run' = "again"
  /\ stack' = << << >> >>
  /\ load_pc' = "expand"
  /\ UNCHANGED << elf_file, load_result, type_info, sym_size, nbytes, tree,
                  load_leaves, json_doc >>
  /\ UNCHANGED << sync_vars, ui_vars, plot_vars, resolve_vars >>

\* the second call of expand_array_elements returns
ExpandAgainEnd ==
  /\ load_pc = "expand"
  /\ stack = << >>
  /\ run = "again"
  /\ load_pc' = "expanded_again"
  /\ UNCHANGED << elf_file, load_result, type_info, sym_size, nbytes, tree,
                  stack, load_leaves, json_doc, ref_tree, run >>
  /\ UNCHANGED << sync_vars, ui_vars, plot_vars, resolve_vars >>

\* collect_leaves returns; elf_parser_load_config returns ELF_PARSE_SUCCESS
LoadSuccess ==
  /\ load_pc = "collect"
  /\ stack = << >>
  /\ run = "elf"
  /\ load_pc' = "done"
  /\ load_result' = "ELF_PARSE_SUCCESS"
  /\ UNCHANGED << elf_file, type_info, sym_size, nbytes, tree, stack,
                  load_leaves, json_doc, ref_tree, run >>
  /\ UNCHANGED << sync_vars, ui_vars, plot_vars, resolve_vars >>

(* ----------------------------------------------------------------------- *)
(* The JSON description: elf_parser_generate_json writes it and            *)
(* load_dartt_config reads it.  A JSON object is a function from its keys. *)
(* ----------------------------------------------------------------------- *)
\* j[k] = v
Put(j, k, v) == (k :> v) @@ j

\* j[k] = v when c holds
PutIf(c, j, k, v) == IF c THEN Put(j, k, v) ELSE j

\* j.contains(k)
contains(j, k) == k \in DOMAIN j

\* j.value(k, d)
value_or(j, k, d) == IF k \in DOMAIN j THEN j[k] ELSE d

RECURSIVE type_info_to_json(_)
type_info_to_json(ti) ==
  LET j0 == [type |-> ti.type]
      j1 == PutIf(ti.typedef_name # "", j0, "typedef", ti.typedef_name)
      j2 == PutIf(ti.size > 0, j1, "size", ti.size)
      field_json(f) ==
        PutIf(f.type_info.type # "null",
              [name |-> f.name, byte_offset |-> f.byte_offset],
              "type_info", type_info_to_json(f.type_info))
  IN IF ti.type \in {"struct", "union"}
     THEN Put(PutIf(ti.name # "", j2,
                    IF ti.type = "struct" THEN "struct_name" ELSE "union_name",
                    ti.name),
              "fields", [i \in 1..Len(ti.fields) |-> field_json(ti.fields[i])])
     ELSE IF ti.type = "array"
     THEN PutIf(ti.fields # << >> /\ ti.fields[1].type_info.type # "null",
                Put(Put(j2, "dimensions", ti.dimensions),
                    "total_elements", ti.total_elements),
                "element_type", type_info_to_json(ti.fields[1].type_info))
     ELSE IF ti.type = "pointer"
     THEN PutIf(ti.pointee.type # "null", j2, "pointee",
                type_info_to_json(ti.pointee))
     ELSE IF ti.type = "enum"
     THEN Put(PutIf(ti.name # "", j2, "enum_name", ti.name),
              "enumerators", << >>)
     ELSE j2

RECURSIVE compute_json_dartt_offsets(_, _)
compute_json_dartt_offsets(type_json, base_offset) ==
  LET type == value_or(type_json, "type", "")
      with_offsets(field) ==
        LET abs_offset == base_offset + value_or(field, "byte_offset", 0)
            f1 == Put(Put(field, "byte_offset", abs_offset),
                      "dartt_offset", abs_offset \div 4)
            f2 == PutIf(abs_offset % 4 # 0, f1, "unaligned", TRUE)
        IN IF contains(field, "type_info")
           THEN Put(f2, "type_info",
                    compute_json_dartt_offsets(field.type_info, abs_offset))
           ELSE f2
  IN IF type \in {"struct", "union"} /\ contains(type_json, "fields")
     THEN Put(type_json, "fields",
              [i \in 1..Len(type_json.fields) |->
                 with_offsets(type_json.fields[i])])
     ELSE IF type = "array" /\ contains(type_json, "element_type")
             /\ value_or(type_json.element_type, "type", "")
                  \in {"struct", "union"}
     THEN Put(type_json, "element_type",
              compute_json_dartt_offsets(type_json.element_type, base_offset))
     ELSE type_json

\* the document elf_parser_generate_json builds for the symbol
generated_json(ti, st_size) ==
  LET total_nbytes == IF st_size > 0 THEN st_size ELSE ti.size IN
    [symbol |-> "symbol", nbytes |-> total_nbytes,
     nwords |-> (total_nbytes + 3) \div 4,
     type |-> compute_json_dartt_offsets(type_info_to_json(ti), 0)]

\* elf_parser_generate_json on the parser that loaded the configuration
elf_parser_generate_json ==
  /\ load_pc = "done"
  /\ run = "elf"
  /\ elf_file.has_symbol
  /\ elf_parser_init(elf_file).dwarf_initialized
  /\ elf_file.has_var_die
  /\ json_doc' = generated_json(type_info, sym_size)
  /\ load_pc' = "json"
  /\ UNCHANGED << elf_file, load_result, type_info, sym_size, nbytes, tree,
                  stack, load_leaves, ref_tree, run >>
  /\ UNCHANGED << sync_vars, ui_vars, plot_vars, resolve_vars >>

ParseWork(j, field, is_type_info) ==
  [j |-> j, field |-> field, is_type_info |-> is_type_info]

\* load_dartt_config(json_path, config, ...) on a fresh DarttConfig, up to
\* the first statement of parse_fields_iterative, which pushes the root
load_dartt_config ==
  /\ load_pc = "json"
  /\ run' = IF run = "saved" THEN "reload" ELSE "json"
  /\ ref_tree' = tree
  /\ nbytes' = value_or(json_doc, "nbytes", 0)
  /\ load_leaves' = << >>
  /\ tree' = [p \in { << >> } |->
                [DefaultField EXCEPT
                   !.name = IF contains(json_doc, "type")
                            THEN Tok(value_or(json_doc, "symbol", ""))
                            ELSE @]]
  /\ stack' = IF contains(json_doc, "type")
              THEN << ParseWork(json_doc.type, << >>, TRUE) >>
              ELSE << >>
  /\ load_pc' = "parse"
  /\ UNCHANGED << elf_file, load_result, type_info, sym_size, json_doc >>
  /\ UNCHANGED << sync_vars, ui_vars, plot_vars, resolve_vars >>

\* the members of a "fields" array pushed in reverse order
RECURSIVE push_json_fields(_, _, _)
push_json_fields(fields_array, p, i) ==
  IF i = 0 THEN << >>
  ELSE << ParseWork(fields_array[i], Append(p, i), FALSE) >>
         \o push_json_fields(fields_array, p, i - 1)

\* one iteration of the loop of parse_fields_iterative
parse_fields_iterative ==
  /\ load_pc = "parse"
  /\ stack # << >>
  /\ LET work == Top(stack)
         j == work.j
         p == work.field
         type_str == value_or(j, "type", "unknown")
         elem == j.element_type
         elem_composite ==
           value_or(elem, "type", "") \in {"struct", "union"}
         typed ==
           [tree[p] EXCEPT
              !.type = parse_field_type(<< Tok(type_str) >>),
              !.nbytes = value_or(j, "size", 0),
              !.type_name =
                IF type_str = "array" /\ contains(j, "element_type")
                   /\ ~elem_composite
                THEN << Tok(value_or(elem, "typedef",
                                     value_or(elem, "type", "unknown"))) >>
                ELSE IF contains(j, "typedef") THEN << Tok(j.typedef) >>
                ELSE << Tok(type_str) >>,
              !.array_size = IF type_str = "array"
                             THEN value_or(j, "total_elements", 0) ELSE @,
              !.element_nbytes =
                IF type_str = "array" /\ contains(j, "element_type")
                THEN value_or(elem, "size", 0) ELSE @]
         ui == j.ui
         named ==
           [tree[p] EXCEPT
              !.name = Tok(value_or(j, "name", "")),
              !.byte_offset = value_or(j, "byte_offset", 0),
              !.dartt_offset = value_or(j, "dartt_offset", 0),
              !.subscribed = IF contains(j, "ui")
                             THEN value_or(ui, "subscribed", FALSE) ELSE @,
              !.expanded = IF contains(j, "ui")
                           THEN value_or(ui, "expanded", FALSE) ELSE @,
              !.display_scale = IF contains(j, "ui")
                                THEN value_or(ui, "display_scale", 1) ELSE @,
              !.use_display_scale =
                IF contains(j, "ui")
                THEN value_or(ui, "use_display_scale", FALSE) ELSE @]
     IN IF work.is_type_info
        THEN IF type_str \in {"struct", "union"} /\ contains(j, "fields")
             THEN /\ tree' = resize_children([tree EXCEPT ![p] = typed], p,
                                             Len(j.fields))
                  /\ stack' = Pop(stack)
                                \o push_json_fields(j.fields, p, Len(j.fields))
             ELSE IF type_str = "array" /\ contains(j, "element_type")
                     /\ elem_composite
             THEN /\ tree' = resize_children([tree EXCEPT ![p] = typed], p, 1)
                  /\ stack' = Append(Pop(stack),
                                     ParseWork(elem, Append(p, 1), TRUE))
             ELSE /\ tree' = [tree EXCEPT ![p] = typed]
                  /\ stack' = Pop(stack)
        ELSE /\ tree' = [tree EXCEPT ![p] = named]
             /\ stack' = IF contains(j, "type_info")
                         THEN Append(Pop(stack),
                                     ParseWork(j.type_info, p, TRUE))
                         ELSE Pop(stack)
  /\ UNCHANGED << elf_file, load_result, type_info, sym_size, nbytes,
                  load_leaves, load_pc, json_doc, ref_tree, run >>
  /\ UNCHANGED << sync_vars, ui_vars, plot_vars, resolve_vars >>

\* parse_fields_iterative returns; expand_array_elements pushes the root
JsonExpandBegin ==
  /\ load_pc = "parse"
  /\ stack = << >>
  /\ stack' = << << >> >>
  /\ load_pc' = "expand"
  /\ UNCHANGED << elf_file, load_result, type_info, sym_size, nbytes, tree,
                  load_leaves, json_doc, ref_tree, run >>
  /\ UNCHANGED << sync_vars, ui_vars, plot_vars, resolve_vars >>

\* collect_leaves returns; load_dartt_config returns true
JsonLoadSuccess ==
  /\ load_pc = "collect"
  /\ stack = << >>
  /\ run # "elf"
  /\ load_pc' = "done"
  /\ UNCHANGED << elf_file, load_result, type_info, sym_size, nbytes, tree,
                  stack, load_leaves, json_doc, ref_tree, run >>
  /\ UNCHANGED << sync_vars, ui_vars, plot_vars, resolve_vars >>

\* a default-constructed DarttConfig: no leaves, no buffers, no cycle running
SyncIdle ==
  /\ leaf_list = << >>
  /\ cfg_nbytes = 0
  /\ ctl_buf = << >>
  /\ periph_buf = << >>
  /\ dev = << >>
  /\ dirty = << >>
  /\ subscribed = << >>
  /\ use_display_scale = << >>
  /\ value = << >>
  /\ dirty_list = << >>
  /\ subscribed_list = << >>
  /\ write_queue = << >>
  /\ read_queue = << >>
  /\ qi = 0
  /\ pc = "load"
  /\ last_op = "idle"
  /\ ret = TRUE
  /\ acked = 0
  /\ nedits = 0
  /\ nclicks = 0

LoadInit == InitLoad /\ SyncIdle /\ UiIdle /\ PlotIdle /\ ResolveIdle

LoadNext ==
  \/ OpenAndResolve
  \/ SetSize
  \/ type_info_to_dartt_field
  \/ ExpandBegin
  \/ expand_array_elements
  \/ CollectBegin
  \/ collect_leaves
  \/ LoadSuccess
  \/ ExpandAgain
  \/ ExpandAgainEnd
  \/ elf_parser_generate_json
  \/ load_dartt_config
  \/ parse_fields_iterative
  \/ JsonExpandBegin
  \/ JsonLoadSuccess

SpecLoad == LoadInit /\ [][LoadNext]_vars

(* ======================================================================= *)
(* The Live Expressions view and save_dartt_config                         *)
(* ======================================================================= *)
\* the values typed into the display scale box
ScaleVals == {2}

\* the symbols used with the view
UiInputs ==
  { \* union { struct { uint32_t a; uint32_t b; } s; uint16_t e; }
    [ti |-> StructType("union", "", 8,
              << FieldInfo("s", 0, StructType("struct", "", 8,
                                     << FieldInfo("a", 0, T_uint32),
                                        FieldInfo("b", 4, T_uint32) >>)),
                 FieldInfo("e", 0, T_uint16) >>),
     sizeof |-> 8],
    \* struct { uint8_t mode; int16_t pair[2]; struct { float x; } pts[2]; }
    [ti |-> StructType("struct", "panel_t", 16,
              << FieldInfo("mode", 0, T_uint8),
                 FieldInfo("pair", 2, ArrayType(T_int16, << 2 >>)),
                 FieldInfo("pts", 8,
                           ArrayType(StructType("struct", "", 4,
                                       << FieldInfo("x", 0, T_float) >>),
                                     << 2 >>)) >>),
     sizeof |-> 16] }

\* an ELF file with the symbol and its debug metadata
GoodElf ==
  [null_args |-> FALSE, is_elf |-> TRUE, dwarf |-> "ok", has_symbol |-> TRUE,
   has_var_die |-> TRUE]

\* the children of the node at p, first to last
children(t, p) == [i \in 1..t[p].nchildren |-> Append(p, i)]

RECURSIVE field_set_subscribed_all(_, _, _)
\* faulty variant: the children of a visited node are not pushed
field_set_subscribed_all_DirectOnly(t, stk, b) ==
  [q \in DOMAIN t |->
     IF \E i \in DOMAIN stk : stk[i] = q THEN [t[q] EXCEPT !.subscribed = b]
     ELSE t[q]]

\* set_subscribed_all(root, subscribed) with stk = << root >>
field_set_subscribed_all(t, stk, b) ==
  IF stk = << >> THEN t
  ELSE field_set_subscribed_all(
         [t EXCEPT ![Top(stk)].subscribed = b],
         Pop(stk) \o children(t, Top(stk)), b)

RECURSIVE field_any_child_subscribed(_, _)
\* any_child_subscribed(root) with stk = << root >>
field_any_child_subscribed(t, stk) ==
  IF stk = << >> THEN FALSE
  ELSE IF t[Top(stk)].subscribed THEN TRUE
  ELSE field_any_child_subscribed(t, Pop(stk) \o children(t, Top(stk)))

RECURSIVE field_all_children_subscribed(_, _)
\* all_children_subscribed(root) with stk = << root >>
field_all_children_subscribed(t, stk) ==
  IF stk = << >> THEN TRUE
  ELSE IF t[Top(stk)].nchildren = 0
  THEN IF ~t[Top(stk)].subscribed THEN FALSE
       ELSE field_all_children_subscribed(t, Pop(stk))
  ELSE field_all_children_subscribed(t, Pop(stk) \o children(t, Top(stk)))

UiEvent(kind, p) ==
  [kind |-> kind, node |-> p,
   all_sub |-> field_all_children_subscribed(tree, << p >>),
   any_sub |-> field_any_child_subscribed(tree, << p >>)]

\* the view is shown for a configuration loaded from its JSON description
ViewShown == load_pc = "done" /\ run = "json" /\ nuiops < MaxUiOps

\* render_single_field: the "##sub" checkbox of the node at p is clicked
ClickSubscribe(p) ==
  /\ ViewShown
  /\ p \in DOMAIN tree
  /\ LET is_leaf == tree[p].nchildren = 0
         all_sub == field_all_children_subscribed(tree, << p >>)
     IN tree' = IF ~is_leaf
                THEN field_set_subscribed_all(tree, << p >>, ~all_sub)
                ELSE [tree EXCEPT ![p].subscribed = ~@]
  /\ ui_event' = UiEvent("sub", p)
  /\ nuiops' = nuiops + 1
  /\ UNCHANGED << elf_file, load_result, type_info, sym_size, nbytes, stack,
                  load_leaves, load_pc, json_doc, ref_tree, run >>
  /\ UNCHANGED << sync_vars, plot_vars, resolve_vars >>

\* render_single_field: the tree node of the parent at p is opened or closed
ToggleTreeNode(p) ==
  /\ ViewShown
  /\ p \in DOMAIN tree
  /\ tree[p].nchildren # 0
  /\ tree' = [tree EXCEPT ![p].expanded = ~@]
  /\ ui_event' = UiEvent("node", p)
  /\ nuiops' = nuiops + 1
  /\ UNCHANGED << elf_file, load_result, type_info, sym_size, nbytes, stack,
                  load_leaves, load_pc, json_doc, ref_tree, run >>
  /\ UNCHANGED << sync_vars, plot_vars, resolve_vars >>

\* render_single_field: the "##native_type" checkbox of the node at p
ClickNativeType(p) ==
  /\ ViewShown
  /\ p \in DOMAIN tree
  /\ tree' = [tree EXCEPT ![p].use_display_scale = ~@]
  /\ ui_event' = UiEvent("native_type", p)
  /\ nuiops' = nuiops + 1
  /\ UNCHANGED << elf_file, load_result, type_info, sym_size, nbytes, stack,
                  load_leaves, load_pc, json_doc, ref_tree, run >>
  /\ UNCHANGED << sync_vars, plot_vars, resolve_vars >>

\* render_single_field: v is entered in the "##displayscale" box of the node
InputDisplayScale(p, v) ==
  /\ ViewShown
  /\ p \in DOMAIN tree
  /\ tree' = [tree EXCEPT ![p].display_scale = v]
  /\ ui_event' = UiEvent("displayscale", p)
  /\ nuiops' = nuiops + 1
  /\ UNCHANGED << elf_file, load_result, type_info, sym_size, nbytes, stack,
                  load_leaves, load_pc, json_doc, ref_tree, run >>
  /\ UNCHANGED << sync_vars, plot_vars, resolve_vars >>

\* the "ui" object written for a field
ui_json(field) ==
  [subscribed |-> field.subscribed, expanded |-> field.expanded,
   display_scale |-> field.display_scale,
   use_display_scale |-> field.use_display_scale]

RECURSIVE inject_ui_settings_iterative(_, _, _)
\* inject_ui_settings_iterative(root_json, root_fields), root_fields being
\* the children of the node at p
inject_ui_settings_iterative(root_json, t, p) ==
  [i \in 1..Len(root_json) |->
     IF i > t[p].nchildren THEN root_json[i]
     ELSE LET j == Put(root_json[i], "ui", ui_json(t[Append(p, i)])) IN
          IF contains(j, "type_info") /\ contains(j.type_info, "fields")
          THEN Put(j, "type_info",
                   Put(j.type_info, "fields",
                       inject_ui_settings_iterative(j.type_info.fields, t,
                                                    Append(p, i))))
          ELSE j]

\* save_dartt_config(json_path, config, ...) on the file the configuration
\* was loaded from; the file is loaded again afterwards
save_dartt_config ==
  /\ load_pc = "done"
  /\ run = "json"
  /\ json_doc' =
       IF contains(json_doc, "type") /\ contains(json_doc.type, "fields")
       THEN Put(json_doc, "type",
                Put(json_doc.type, "fields",
                    inject_ui_settings_iterative(json_doc.type.fields, tree,
                                                 << >>)))
       ELSE json_doc
  /\ run' = "saved"
  /\ load_pc' = "json"
  /\ UNCHANGED << elf_file, load_result, type_info, sym_size, nbytes, tree,
                  stack, load_leaves, ref_tree >>
  /\ UNCHANGED << sync_vars, ui_vars, plot_vars, resolve_vars >>

UiInit ==
  /\ \E inp \in UiInputs :
       /\ elf_file = GoodElf
       /\ type_info = inp.ti
       /\ sym_size = inp.sizeof
  /\ nbytes = 0
  /\ tree = [p \in { << >> } |-> DefaultField]
  /\ stack = << >>
  /\ load_leaves = << >>
  /\ load_pc = "start"
  /\ load_result = "none"
  /\ json_doc = << >>
  /\ ref_tree = << >>
  /\ run = "elf"
  /\ SyncIdle /\ UiIdle /\ PlotIdle /\ ResolveIdle

UiNext ==
  \/ LoadNext
  \/ \E p \in DOMAIN tree : ClickSubscribe(p)
  \/ \E p \in DOMAIN tree : ToggleTreeNode(p)
  \/ \E p \in DOMAIN tree : ClickNativeType(p)
  \/ \E p \in DOMAIN tree, v \in ScaleVals : InputDisplayScale(p, v)
  \/ save_dartt_config

SpecUI == UiInit /\ [][UiNext]_vars

(* ======================================================================= *)
(* The synchronization cycle run for ever                                  *)
(* ======================================================================= *)
\* the example description loaded without "ui" blocks, so that
\* use_display_scale has its default, false
LiveInit ==
  /\ Init
  /\ leaf_list = LayoutExample.leaves
  /\ \A i \in DOMAIN use_display_scale : ~use_display_scale[i]

\* the frame loop never stops, and a transport write that is attempted again
\* and again eventually succeeds
Fairness == WF_vars(Next) /\ SF_vars(TransportWrite(TRUE))

SpecLive == LiveInit /\ [][Next]_vars /\ Fairness

(* ======================================================================= *)
(* Type resolution from the debug metadata (resolve_type_iterative)        *)
(* ======================================================================= *)
\* a DIE: its tag, DW_AT_name, DW_AT_byte_size (-1: absent), the offset its
\* DW_AT_type refers to (0: absent), its children (member DIE offsets of a
\* struct/union, the subrange counts of an array) and, for a member, its
\* DW_AT_data_member_location
Die(tag, name, byte_size, type_ref, kids, location) ==
  [tag |-> tag, name |-> name, byte_size |-> byte_size, type_ref |-> type_ref,
   kids |-> kids, location |-> location]

\* The debug metadata of
\*   typedef float real_t;  typedef real_t gain_t;
\*   struct Point { float x; real_t y; };
\*   struct Seg { struct Point a; struct Point b; };
\*   typedef struct Seg seg_t;  typedef struct Point pair_t[2];
\*   struct node { int val; struct node *next; };
\*   enum mode;  const void;  float grid[2][3];
\* keyed by DIE offset
DebugInfo ==
  [off \in 1..24 |->
     CASE off = 1 -> Die("base_type", "float", 4, 0, << >>, 0)
       [] off = 2 -> Die("base_type", "int", 4, 0, << >>, 0)
       [] off = 3 -> Die("typedef", "real_t", -1, 1, << >>, 0)
       [] off = 4 -> Die("typedef", "gain_t", -1, 3, << >>, 0)
       [] off = 5 -> Die("const_type", "", -1, 4, << >>, 0)
       [] off = 6 -> Die("volatile_type", "", -1, 5, << >>, 0)
       [] off = 7 -> Die("structure_type", "Point", 8, 0, << 8, 9 >>, 0)
       [] off = 8 -> Die("member", "x", -1, 1, << >>, 0)
       [] off = 9 -> Die("member", "y", -1, 3, << >>, 4)
       [] off = 10 -> Die("structure_type", "Seg", 16, 0, << 11, 12 >>, 0)
       [] off = 11 -> Die("member", "a", -1, 7, << >>, 0)
       [] off = 12 -> Die("member", "b", -1, 7, << >>, 8)
       [] off = 13 -> Die("typedef", "seg_t", -1, 10, << >>, 0)
       [] off = 14 -> Die("array_type", "", -1, 7, << 2 >>, 0)
       [] off = 15 -> Die("typedef", "pair_t", -1, 14, << >>, 0)
       [] off = 16 -> Die("structure_type", "node", 8, 0, << 17, 18 >>, 0)
       [] off = 17 -> Die("member", "val", -1, 2, << >>, 0)
       [] off = 18 -> Die("member", "next", -1, 19, << >>, 4)
       [] off = 19 -> Die("pointer_type", "", -1, 16, << >>, 0)
       [] off = 20 -> Die("enumeration_type", "mode", 4, 0, << >>, 0)
       [] off = 21 -> Die("const_type", "", -1, 0, << >>, 0)
       [] off = 22 -> Die("array_type", "", -1, 1, << 2, 3 >>, 0)
       [] off = 23 -> Die("volatile_type", "", -1, 13, << >>, 0)
       [] off = 24 -> Die("const_type", "", -1, 15, << >>, 0)]

\* the type offsets of the variables that can be looked up
StartOffsets == {1, 4, 6, 7, 10, 13, 15, 16, 20, 21, 22, 23, 24}

\* TypeInfo::TypeInfo() and FieldInfo::FieldInfo(): a slot of the result.
\* Slots are keyed by their path from the root: i >= 1 for fields[i-1],
\* 0 for pointee; the FieldInfo a slot hangs from is kept with the slot.
NewTypeInfo ==
  [type |-> "", name |-> "", typedef_name |-> "", size |-> 0,
   dimensions |-> << >>, total_elements |-> 0, is_const |-> FALSE,
   is_volatile |-> FALSE, nfields |-> 0, has_pointee |-> FALSE,
   field_name |-> "", field_offset |-> 0]

DwarfWork(type, die_offset, slot, index) ==
  [type |-> type, die_offset |-> die_offset, result |-> slot,
   index |-> index]

RECURSIVE product(_)
product(dims) == IF dims = << >> THEN 1 ELSE Head(dims) * product(Tail(dims))

\* the path of child k of the slot at r.  The result is kept down to
\* MaxDepth levels: a slot below them stands for all of its descendants.
child_slot(r, k) == IF Len(r) > MaxDepth THEN r ELSE Append(r, k)

\* res with fresh slots for the children kids of the slot at r
with_slots(res, r, kids) ==
  [q \in DOMAIN res \cup { child_slot(r, k) : k \in kids } |->
     IF q \in DOMAIN res THEN res[q] ELSE NewTypeInfo]

\* what one RESOLVE work item does: the new result and the pushed work
Outcome(res, push) == [result |-> res, push |-> push]

\* faulty variant: a typedef is taken as a type of its own
resolve_typedef_Opaque(res, r, die) ==
  Outcome([res EXCEPT ![r].type = die.name], << >>)

\* case DW_TAG_typedef
resolve_typedef(res, r, die) ==
  IF die.type_ref # 0
  THEN Outcome([res EXCEPT ![r].typedef_name = die.name],
               << DwarfWork("WORK_RESOLVE_TYPE", die.type_ref, r, 0) >>)
  ELSE Outcome([res EXCEPT ![r].type = die.name], << >>)

\* case DW_TAG_const_type (flag = "is_const") and DW_TAG_volatile_type
resolve_qualifier(res, r, die) ==
  LET flagged == IF die.tag = "const_type"
                 THEN [res EXCEPT ![r].is_const = TRUE]
                 ELSE [res EXCEPT ![r].is_volatile = TRUE]
  IN IF die.type_ref # 0
     THEN Outcome(flagged,
                  << DwarfWork("WORK_RESOLVE_TYPE", die.type_ref, r, 0) >>)
     ELSE Outcome([flagged EXCEPT ![r].type = "void"], << >>)

\* the member work items of a struct/union, pushed in reverse order
RECURSIVE push_member_work(_, _, _)
push_member_work(member_offsets, r, i) ==
  IF i = 0 THEN << >>
  ELSE << DwarfWork("WORK_PARSE_MEMBER", member_offsets[i], r, i) >>
         \o push_member_work(member_offsets, r, i - 1)

\* the switch on the tag of the DIE at work.die_offset
resolve_die(res, r, die) ==
  CASE die.tag = "base_type" ->
         Outcome([res EXCEPT ![r].type = IF die.name = "" THEN "unknown"
                                         ELSE die.name,
                             ![r].name = die.name,
                             ![r].size = IF die.byte_size >= 0
                                         THEN die.byte_size ELSE @],
                 << >>)
    [] die.tag = "typedef" -> resolve_typedef(res, r, die)
    [] die.tag = "pointer_type" ->
         LET sized == [res EXCEPT ![r].type = "pointer",
                                  ![r].size = IF die.byte_size >= 0
                                              THEN die.byte_size ELSE 4]
         IN IF die.type_ref # 0
            THEN Outcome(with_slots([sized EXCEPT ![r].has_pointee = TRUE],
                                    r, {0}),
                         << DwarfWork("WORK_RESOLVE_TYPE", die.type_ref,
                                      child_slot(r, 0), 0) >>)
            ELSE Outcome(sized, << >>)
    [] die.tag = "array_type" ->
         IF die.type_ref # 0
         THEN LET dims == res[r].dimensions \o die.kids
                  filled == [res EXCEPT ![r].type = "array",
                                        ![r].dimensions = dims,
                                        ![r].total_elements = product(dims),
                                        ![r].nfields = 1]
                  slotted == with_slots(filled, r, {1})
              IN Outcome([slotted EXCEPT
                            ![child_slot(r, 1)].field_name =
                               "__element_type__"],
                         << DwarfWork("WORK_RESOLVE_TYPE", die.type_ref,
                                      child_slot(r, 1), 0) >>)
         ELSE Outcome([res EXCEPT ![r].type = "array"], << >>)
    [] die.tag \in {"structure_type", "union_type"} ->
         Outcome(with_slots([res EXCEPT
                               ![r].type = IF die.tag = "structure_type"
                                           THEN "struct" ELSE "union",
                               ![r].name = die.name,
                               ![r].size = IF die.byte_size >= 0
                                           THEN die.byte_size ELSE 0,
                               ![r].nfields = Len(die.kids)],
                            r, 1..Len(die.kids)),
                 push_member_work(die.kids, r, Len(die.kids)))
    [] die.tag = "enumeration_type" ->
         Outcome([res EXCEPT ![r].type = "enum", ![r].name = die.name,
                             ![r].size = IF die.byte_size >= 0
                                         THEN die.byte_size ELSE 4],
                 << >>)
    [] die.tag \in {"const_type", "volatile_type"} ->
         resolve_qualifier(res, r, die)
    [] OTHER ->
         Outcome([res EXCEPT ![r].type = "unknown",
                             ![r].size = IF die.byte_size >= 0
                                         THEN die.byte_size ELSE 0],
                 << >>)

\* the branch WORK_PARSE_MEMBER
parse_member(res, parent, index, die) ==
  LET field == child_slot(parent, index) IN
    Outcome([res EXCEPT ![field].field_name = die.name,
                        ![field].field_offset = die.location],
            IF die.type_ref # 0
            THEN << DwarfWork("WORK_RESOLVE_TYPE", die.type_ref, field, 0) >>
            ELSE << >>)

\* the statements of resolve_type_iterative before its loop
ResolveStart(offset) ==
  /\ start_offset = offset
  /\ root_result = [r \in { << >> } |-> NewTypeInfo]
  /\ res_stack = << DwarfWork("WORK_RESOLVE_TYPE", offset, << >>, 0) >>
  /\ parsed = [off \in DOMAIN DebugInfo |-> 0]
  /\ cache = << >>
  /\ res_ref = << >>
  /\ res_run = "first"
  /\ res_pc = "running"

\* one iteration of the loop of resolve_type_iterative; parsed counts up to
\* MaxParsed
resolve_type_iterative ==
  /\ res_pc = "running"
  /\ res_stack # << >>
  /\ LET work == Top(res_stack)
         cached == cache[work.die_offset]
         known == work.die_offset \in DOMAIN DebugInfo
         die == DebugInfo[work.die_offset]
         out ==
           IF work.type = "WORK_RESOLVE_TYPE"
           THEN IF work.die_offset \in DOMAIN cache
                THEN Outcome([root_result EXCEPT
                                ![work.result] =
                                   [cached EXCEPT
                                      !.nfields =
                                         root_result[work.result].nfields,
                                      !.has_pointee =
                                         root_result[work.result].has_pointee,
                                      !.field_name =
                                         root_result[work.result].field_name,
                                      !.field_offset =
                                         root_result[work.result].field_offset]],
                             << >>)
                ELSE IF ~known
                THEN Outcome([root_result EXCEPT
                                ![work.result].type = "unknown"],
                             << >>)
                ELSE resolve_die(root_result, work.result, die)
           ELSE IF ~known THEN Outcome(root_result, << >>)
           ELSE parse_member(root_result, work.result, work.index, die)
     IN /\ root_result' = out.result
        /\ res_stack' = Pop(res_stack) \o out.push
        /\ parsed' = IF work.type = "WORK_RESOLVE_TYPE" /\ known
                        /\ work.die_offset \notin DOMAIN cache
                     THEN [parsed EXCEPT ![work.die_offset] =
                                            IF @ < MaxParsed THEN @ + 1 ELSE @]
                     ELSE parsed
  /\ UNCHANGED << start_offset, cache, res_ref, res_run, res_pc >>
  /\ UNCHANGED << sync_vars, load_vars, ui_vars, plot_vars >>

\* the loop ends: return root_result
ResolveReturn ==
  /\ res_pc = "running"
  /\ res_stack = << >>
  /\ res_pc' = "returned"
  /\ UNCHANGED << start_offset, root_result, res_stack, parsed, cache,
                  res_ref, res_run >>
  /\ UNCHANGED << sync_vars, load_vars, ui_vars, plot_vars >>

\* the offset reached from off through typedef, const and volatile DIEs
RECURSIVE underlying(_)
underlying(off) ==
  IF DebugInfo[off].tag \in {"typedef", "const_type", "volatile_type"}
     /\ DebugInfo[off].type_ref # 0
  THEN underlying(DebugInfo[off].type_ref)
  ELSE off

\* a second call, with a fresh cache, on the type the typedefs and
\* qualifiers of the first call's type wrap
ResolveUnderlying ==
  /\ res_pc = "returned"
  /\ res_run = "first"
  /\ underlying(start_offset) # start_offset
  /\ res_ref' = root_result
  /\ res_run' = "underlying"
  /\ root_result' = [r \in { << >> } |-> NewTypeInfo]
  /\ res_stack' = << DwarfWork("WORK_RESOLVE_TYPE", underlying(start_offset),
                               << >>, 0) >>
  /\ parsed' = [off \in DOMAIN DebugInfo |-> 0]
  /\ res_pc' = "running"
  /\ UNCHANGED << start_offset, cache >>
  /\ UNCHANGED << sync_vars, load_vars, ui_vars, plot_vars >>

ResolveInit ==
  /\ \E offset \in StartOffsets : ResolveStart(offset)
  /\ SyncIdle /\ LoadIdle /\ UiIdle /\ PlotIdle

ResolveNext ==
  \/ resolve_type_iterative
  \/ ResolveReturn
  \/ ResolveUnderlying

SpecResolve == ResolveInit /\ [][ResolveNext]_vars

\* the loop keeps running while it has work
SpecResolveLive == SpecResolve /\ WF_vars(ResolveNext)

(* ======================================================================= *)
(* The plot buffer (Line::enqueue_data)                                    *)
(* ======================================================================= *)
fpoint_t(x_val, y_val) == [x |-> x_val, y |-> y_val]

\* the samples the sources can hold
SampleX == 0..2

SampleY == 0..1

\* the window widths passed as screen_width
ScreenWidths == 1..2

\* points.size() < enqueue_cap: the int is converted to size_t, so a negative
\* cap compares as a huge one
size_below_cap(size, enqueue_cap) ==
  IF enqueue_cap < 0 THEN TRUE ELSE size < enqueue_cap

\* std::rotate(points.begin(), points.begin() + 1, points.end());
\* points.back() = p      (on a non-empty vector)
rotate_in(pts, p) == Append(Tail(pts), p)

\* a Line as Line::Line() leaves it: no points; mode is not initialized
InitPlot ==
  /\ points = << >>
  /\ plot_mode \in {"TIME_MODE", "XY_MODE"}
  /\ xscale = << 0, 1 >>
  /\ plot_cap = 0
  /\ plot_ret = FALSE
  /\ plot_calls = 0
  /\ plot_pc = "running"

\* the points after the enqueue step of Line::enqueue_data
enqueued(pts, enqueue_cap, p) ==
  IF size_below_cap(Len(pts), enqueue_cap) THEN Append(pts, p)
  ELSE rotate_in(pts, p)

\* Line::enqueue_data(enqueue_cap, screen_width) with *xsource = x and
\* *ysource = y; has_sources is FALSE when xsource or ysource is NULL.
\* xscale is kept as the pair << screen_width, div >>.
enqueue_data(enqueue_cap, screen_width, has_sources, x, y) ==
  /\ plot_pc = "running"
  /\ plot_calls < MaxCalls
  /\ plot_calls' = plot_calls + 1
  /\ plot_cap' = enqueue_cap
  /\ IF ~has_sources
     THEN /\ plot_ret' = FALSE
          /\ UNCHANGED << points, xscale, plot_pc >>
     ELSE IF ~size_below_cap(Len(points), enqueue_cap) /\ points = << >>
     THEN \* rotate and back() on an empty vector: undefined behaviour; the
          \* call either crashes or returns with the vector still empty
          \/ /\ plot_pc' = "crashed"
             /\ UNCHANGED << points, xscale, plot_ret >>
          \/ /\ plot_ret' = TRUE
             /\ UNCHANGED << points, xscale, plot_pc >>
     ELSE LET pts == enqueued(points, enqueue_cap, fpoint_t(x, y))
              div == pts[Len(pts)].x - pts[1].x
          IN /\ plot_ret' = TRUE
             /\ points' = IF plot_mode = "TIME_MODE" /\ Len(pts) >= 2
                             /\ div < 0
                          THEN << >> ELSE pts
             /\ xscale' = IF plot_mode = "TIME_MODE" /\ Len(pts) >= 2
                             /\ div > 0
                          THEN << screen_width, div >> ELSE xscale
             /\ UNCHANGED plot_pc
  /\ UNCHANGED plot_mode
  /\ UNCHANGED << sync_vars, load_vars, ui_vars, resolve_vars >>

PlotInit == InitPlot /\ SyncIdle /\ LoadIdle /\ UiIdle /\ ResolveIdle

PlotNext ==
  \E enqueue_cap \in (-1)..MaxCap, has_sources \in BOOLEAN,
     x \in SampleX, y \in SampleY, screen_width \in ScreenWidths :
    enqueue_data(enqueue_cap, screen_width, has_sources, x, y)

SpecPlot == PlotInit /\ [][PlotNext]_vars

(* ======================================================================= *)
(* Properties of the region coalescer and the buffer marshaller            *)
(* ======================================================================= *)
QueueRegions(q) == {q[k] : k \in 1..Len(q)}

AllRegions == QueueRegions(write_queue) \cup QueueRegions(read_queue)

ListedFields(r) == {r.fields[k] : k \in 1..Len(r.fields)}

FieldInside(r, f) ==
  /\ r.start_offset <= f.byte_offset
  /\ f.byte_offset + f.nbytes <= r.start_offset + r.length

\* C1: every field listed in a region returned by build_write_queue or
\* build_read_queue lies inside the region's window [start_offset,
\* start_offset + length), also for trees with unions.
C1_FieldsInsideRegion ==
  \A r \in AllRegions : \A i \in ListedFields(r) : FieldInside(r, leaf_list[i])

\* C2: every returned region has a start_offset and a length that are
\* multiples of 4.
C2_RegionsWordAligned ==
  \A r \in AllRegions : r.start_offset % 4 = 0 /\ r.length % 4 = 0

\* a queue holds a region built from a field whose offset or size is not a
\* multiple of 4
C2_Witness ==
  \E r \in AllRegions : \E i \in ListedFields(r) :
    leaf_list[i].byte_offset % 4 # 0 \/ leaf_list[i].nbytes % 4 # 0

Separated(q) ==
  \A k \in 1..(Len(q) - 1) :
    q[k + 1].start_offset > q[k].start_offset + q[k].length

ExampleRegions ==
  << [start_offset |-> 0, length |-> 8, fields |-> << 1, 2 >>],
     [start_offset |-> 12, length |-> 4, fields |-> << 3 >>] >>

Occurrences(q, i) ==
  Cardinality({kj \in (1..Len(q)) \X LeafIds :
                 kj[2] <= Len(q[kj[1]].fields) /\ q[kj[1]].fields[kj[2]] = i})

ListsExactly(q, flag) ==
  /\ \A i \in LeafIds : Occurrences(q, i) = IF flag[i] THEN 1 ELSE 0
  /\ \A r \in QueueRegions(q) : Len(r.fields) >= 1
  /\ (\A i \in LeafIds : ~flag[i]) => q = << >>

\* C4: the fields listed across the regions returned by build_write_queue are
\* exactly the leaves whose dirty flag is set at the call (build_read_queue:
\* subscribed), each in exactly one region; every region lists at least one
\* field; no flagged leaf gives the empty list.
C4_QueueListsExactlyFlagged ==
  /\ last_op = "build_write" => ListsExactly(write_queue, dirty)
  /\ last_op = "build_read" => ListsExactly(read_queue, subscribed)

\* a write queue of two regions has just been built while a leaf is clean
C4_Witness ==
  /\ last_op = "build_write"
  /\ Len(write_queue) >= 2
  /\ \E i \in LeafIds : ~dirty[i]

\* C5: sync_fields_to_ctl_buf is all-or-nothing: when it returns false no
\* byte of the desired buffer has changed.
C5_ToWireAllOrNothing ==
  [][(last_op' = "to_wire" /\ ~ret') => ctl_buf' = ctl_buf]_vars

Covered(r, p) == {k \in 1..Len(r.fields) : p \in FieldRange(leaf_list[r.fields[k]])}

Max(S) == CHOOSE x \in S : \A y \in S : y <= x

\* C6 as stated: after a successful sync_fields_to_ctl_buf(region) the bytes
\* of the desired buffer at every listed field's range equal that field's
\* value bytes, and every byte outside the listed ranges is unchanged.
C6_StagedBytesEqualEveryField ==
  [][(last_op' = "to_wire" /\ ret') =>
       LET r == write_queue[qi]
       IN /\ \A i \in ListedFields(r) : \A p \in FieldRange(leaf_list[i]) :
               ctl_buf'[p] = value[i][p - leaf_list[i].byte_offset]
          /\ \A p \in DOMAIN ctl_buf :
               Covered(r, p) = {} => ctl_buf'[p] = ctl_buf[p]]_vars

\* C6 amended: after a successful sync_fields_to_ctl_buf(region) every byte of
\* the desired buffer inside the range of a listed field equals the value
\* byte of the last listed field that covers it (the field's own bytes when
\* no later listed field overlaps it), and every byte outside the listed
\* ranges is unchanged.
C6_StagedBytesLastWriter ==
  [][(last_op' = "to_wire" /\ ret') =>
       LET r == write_queue[qi]
       IN \A p \in DOMAIN ctl_buf :
            IF Covered(r, p) = {}
            THEN ctl_buf'[p] = ctl_buf[p]
            ELSE LET i == r.fields[Max(Covered(r, p))]
                 IN ctl_buf'[p] = value[i][p - leaf_list[i].byte_offset]]_vars

\* a region with two overlapping fields of different values has been staged
\* next to a byte that no listed field covers
C6_Witness ==
  /\ last_op = "to_wire" /\ ret /\ pc = "tx"
  /\ LET r == write_queue[qi]
     IN /\ \E i, j \in ListedFields(r) :
             /\ i # j
             /\ FieldRange(leaf_list[i]) \cap FieldRange(leaf_list[j]) # {}
             /\ value[i] # value[j]
        /\ \E p \in DOMAIN ctl_buf : Covered(r, p) = {}

\* C7: sync_fields_to_ctl_buf and sync_periph_buf_to_fields never change a
\* dirty or subscribed flag, whether they return true or false.
C7_MarshallerKeepsFlags ==
  [][(last_op' \in {"to_wire", "from_wire"}) =>
       (dirty' = dirty /\ subscribed' = subscribed)]_vars

\* a staging has just been refused for a bounds violation while a leaf is dirty
C7_Witness ==
  /\ last_op = "to_wire" /\ ~ret
  /\ \E i \in LeafIds : dirty[i]

\* C8: once clear_dirty_flags has been applied to every region returned by
\* build_write_queue, build_write_queue without further edits returns the
\* empty list.
C8_AcknowledgedWritesIdempotent ==
  (pc = "coalesce_r" /\ acked = Len(write_queue)) =>
     build_write_queue(leaf_list, collect_dirty_fields(leaf_list, dirty)) = << >>

\* the two regions of a write queue have both been acknowledged
C8_Witness ==
  /\ pc = "coalesce_r" /\ last_op = "ack"
  /\ acked = Len(write_queue) /\ acked >= 2
  /\ \E r \in QueueRegions(write_queue) : Len(r.fields) >= 2

\* C9: a dirty flag is cleared only by clear_dirty_flags after a confirmed
\* write; after a failed write it stays set until the next cycle builds its
\* write queue.
C9_DirtyClearedOnlyByAck ==
  [][\A i \in LeafIds : (dirty[i] /\ ~dirty'[i]) => last_op' = "ack"]_vars

(* ======================================================================= *)
(* Properties of the tree builder                                          *)
(* ======================================================================= *)
TreeBuilt == load_pc \in {"collect", "done"}

\* C10: offset invariant: in a tree built by type_info_to_dartt_field and
\* then expand_array_elements, every node (composite, array node, expanded
\* element, leaf) satisfies byte_offset + nbytes <= config.nbytes.
C10_OffsetInvariant ==
  TreeBuilt =>
    \A p \in DOMAIN tree : tree[p].byte_offset + tree[p].nbytes <= nbytes

\* C11: one iteration of expand_array_elements on a childless node with
\* array_size n > 0 and element_nbytes s > 0 at byte offset b gives it exactly
\* n children, the i-th (from 0) named "[i]" with byte_offset b + i*s, nbytes
\* s and dartt_offset (b + i*s) / 4, and changes no other node; a node that
\* has children, or array_size 0, or element_nbytes 0 leaves the tree as it is.
C11_ExpansionShape ==
  [][(load_pc = "expand" /\ stack # << >>) =>
       LET p == stack[Len(stack)]
           n == tree[p].array_size
           s == tree[p].element_nbytes
           b == tree[p].byte_offset
       IN IF tree[p].nchildren = 0 /\ n > 0 /\ s > 0
          THEN /\ DOMAIN tree' = DOMAIN tree \cup {p \o << k >> : k \in 1..n}
               /\ \A q \in DOMAIN tree \ {p} : tree'[q] = tree[q]
               /\ tree'[p] = [tree[p] EXCEPT !.nchildren = n]
               /\ \A i \in 0..(n - 1) :
                    LET c == tree'[p \o << i + 1 >>] IN
                      /\ c.name = [s |-> "[]", n |-> i]
                      /\ c.byte_offset = b + i * s
                      /\ c.nbytes = s
                      /\ c.dartt_offset = (b + i * s) \div 4
                      /\ c.nchildren = 0
          ELSE tree' = tree]_vars

\* the array of 3 two-byte elements at offset 16 has been expanded into the
\* leaves [0], [1], [2] at offsets 16, 18, 20
C11_Witness ==
  /\ TreeBuilt
  /\ \E p \in DOMAIN tree :
       /\ tree[p].array_size = 3 /\ tree[p].element_nbytes = 2
       /\ tree[p].byte_offset = 16 /\ tree[p].nchildren = 3
       /\ \A i \in 0..2 :
            /\ tree[p \o << i + 1 >>].name = [s |-> "[]", n |-> i]
            /\ tree[p \o << i + 1 >>].byte_offset = 16 + 2 * i
            /\ tree[p \o << i + 1 >>].nchildren = 0

Parent(p) == SubSeq(p, 1, Len(p) - 1)

ExpandedElement(p) == p # << >> /\ tree[p].name.s = "[]"

\* C12: every leaf created by array expansion has the FieldType the builder
\* stored on its array node (the classification of the element's resolved
\* base type), also when the element type is declared through typedefs.
C12_ElementsShareClassification ==
  TreeBuilt =>
    \A p \in DOMAIN tree :
      ExpandedElement(p) => tree[p].type = tree[Parent(p)].type

\* a comes before b in a depth-first, left-to-right traversal
PathBefore(a, b) ==
  \E k \in 1..Len(a) :
    /\ k <= Len(b)
    /\ a[k] < b[k]
    /\ \A j \in 1..(k - 1) : a[j] = b[j]

\* C13: when collect_leaves has finished, the leaf list holds every node
\* without children exactly once, no node with children, in depth-first
\* left-to-right order.
C13_LeafListIsDepthFirstLeaves ==
  load_pc = "done" =>
    /\ {load_leaves[k] : k \in 1..Len(load_leaves)}
         = {p \in DOMAIN tree : tree[p].nchildren = 0}
    /\ \A i, j \in 1..Len(load_leaves) :
         i < j => PathBefore(load_leaves[i], load_leaves[j])

\* the leaves of a tree with nested composites and expanded arrays have been
\* collected
C13_Witness ==
  /\ load_pc = "done"
  /\ Len(load_leaves) >= 10
  /\ \E p \in DOMAIN tree : Len(p) = 3
  /\ \E p \in DOMAIN tree : tree[p].nchildren > 0 /\ p # << >>

\* format_field_value: width of the value-slot member a classification is
\* read through (0: not a displayed kind)
ValueMemberWidth(type) ==
  CASE type \in {"INT8", "UINT8"} -> 1
    [] type \in {"INT16", "UINT16"} -> 2
    [] type \in {"FLOAT", "INT32", "UINT32", "POINTER", "ENUM"} -> 4
    [] type \in {"DOUBLE", "INT64", "UINT64"} -> 8
    [] OTHER -> 0

\* C14: every leaf of a built tree whose classification is a numeric kind,
\* enum or pointer has nbytes (the byte count the marshaller copies) equal to
\* the width of the value-slot member that classification is read through.
C14_LeafWidthMatchesClassification ==
  load_pc = "done" =>
    \A k \in 1..Len(load_leaves) :
      LET f == tree[load_leaves[k]] IN
        ValueMemberWidth(f.type) > 0 => f.nbytes = ValueMemberWidth(f.type)

LoadReturned == load_pc \in {"failed", "done"}

\* C15 as stated: the first of "not a valid binary", "symbol absent", "no
\* debug metadata", "no variable entry" that holds decides the returned code
\* (NOT_ELF, SYMBOL_NOT_FOUND, NO_DWARF, NO_DEBUG_INFO); success only when
\* none holds.
C15_ErrorPrecedence ==
  (LoadReturned /\ ~elf_file.null_args) =>
    load_result =
      IF ~elf_file.is_elf THEN "ELF_PARSE_NOT_ELF"
      ELSE IF ~elf_file.has_symbol THEN "ELF_PARSE_SYMBOL_NOT_FOUND"
      ELSE IF elf_file.dwarf # "ok" THEN "ELF_PARSE_NO_DWARF"
      ELSE IF ~elf_file.has_var_die THEN "ELF_PARSE_NO_DEBUG_INFO"
      ELSE "ELF_PARSE_SUCCESS"

\* C15 amended: as stated, except that debug metadata libdwarf fails on with
\* an error yields NO_DWARF before the symbol is looked up; NO_DWARF is never
\* returned for a file that is not a valid binary.
C15_ErrorPrecedenceDwarfErrorFirst ==
  (LoadReturned /\ ~elf_file.null_args) =>
    /\ load_result =
         IF ~elf_file.is_elf THEN "ELF_PARSE_NOT_ELF"
         ELSE IF elf_file.dwarf = "error" THEN "ELF_PARSE_NO_DWARF"
         ELSE IF ~elf_file.has_symbol THEN "ELF_PARSE_SYMBOL_NOT_FOUND"
         ELSE IF elf_file.dwarf = "none" THEN "ELF_PARSE_NO_DWARF"
         ELSE IF ~elf_file.has_var_die THEN "ELF_PARSE_NO_DEBUG_INFO"
         ELSE "ELF_PARSE_SUCCESS"
    /\ load_result = "ELF_PARSE_NO_DWARF" => elf_file.is_elf

\* a load of a valid binary whose debug metadata is broken and whose symbol
\* table lacks the symbol has returned
C15_Witness ==
  /\ LoadReturned
  /\ ~elf_file.null_args /\ elf_file.is_elf
  /\ elf_file.dwarf = "error" /\ ~elf_file.has_symbol
  /\ load_result = "ELF_PARSE_NO_DWARF"

SameNode(a, b) ==
  /\ a.name = b.name
  /\ a.byte_offset = b.byte_offset
  /\ a.nbytes = b.nbytes
  /\ a.type = b.type
  /\ a.nchildren = b.nchildren

\* C16: the tree load_dartt_config builds from the JSON description that
\* elf_parser_generate_json emits has the same nodes as the tree
\* elf_parser_load_config built from the same debug metadata, with the same
\* name, absolute byte offset, size, classification and child order.
C16_LoadPathsAgree ==
  (load_pc = "done" /\ run = "json") =>
    /\ DOMAIN tree = DOMAIN ref_tree
    /\ \A p \in DOMAIN tree : SameNode(tree[p], ref_tree[p])

\* C19: after a call of enqueue_data with non-null sources the stored points
\* never exceed the enqueue_cap passed to it; below the cap the call appends
\* the new point, at the cap it drops the oldest point and appends the newest,
\* keeping the others in order.
C19_PlotBufferBoundedCircular ==
  [][(plot_calls' # plot_calls /\ plot_ret' /\ plot_pc' = "running") =>
       /\ Len(points') <= plot_cap'
       /\ Len(points) < plot_cap' =>
            /\ Len(points') = Len(points) + 1
            /\ SubSeq(points', 1, Len(points)) = points
       /\ (Len(points) = plot_cap' /\ plot_cap' > 0) =>
            /\ Len(points') = Len(points)
            /\ SubSeq(points', 1, Len(points) - 1) = Tail(points)]_vars

IsPrefix(p, q) == Len(p) <= Len(q) /\ SubSeq(q, 1, Len(p)) = p

Subtree(t, p) == {q \in DOMAIN t : IsPrefix(p, q)}

LeavesBelow(t, p) == {q \in Subtree(t, p) : t[q].nchildren = 0}

\* the saved configuration has been loaded again
Reloaded == load_pc = "done" /\ run = "reload"

\* C17: after save_dartt_config and load_dartt_config of the same file every
\* node of the tree, the per-index leaves of expanded arrays and the members
\* below struct-array elements included, has the subscribed, expanded,
\* display_scale and use_display_scale values it had before the save.
C17_SaveReloadKeepsUiSettings ==
  Reloaded =>
    /\ DOMAIN tree = DOMAIN ref_tree
    /\ \A p \in DOMAIN ref_tree :
         /\ tree[p].subscribed = ref_tree[p].subscribed
         /\ tree[p].expanded = ref_tree[p].expanded
         /\ tree[p].display_scale = ref_tree[p].display_scale
         /\ tree[p].use_display_scale = ref_tree[p].use_display_scale

\* t2 is t with the subscribed flags of p's subtree set to b and nothing else
\* changed
SubtreeSetTo(t, t2, p, b) ==
  /\ DOMAIN t2 = DOMAIN t
  /\ \A q \in LeavesBelow(t, p) : t2[q].subscribed = b
  /\ \A q \in DOMAIN t \ Subtree(t, p) : t2[q] = t[q]
  /\ \A q \in Subtree(t, p) : [t2[q] EXCEPT !.subscribed = t[q].subscribed] = t[q]

\* C18: set_subscribed_all(node, true) sets the subscribed flag of every leaf
\* below node, so that all_children_subscribed(node) holds, and
\* set_subscribed_all(node, false) clears them, so that
\* any_child_subscribed(node) is false; a click on a parent's checkbox turns
\* all leaves below it on when the subtree was mixed or all off and all off
\* when every leaf was on; nodes outside the subtree are unchanged.
C18_ParentSubscribeCoversSubtree ==
  [][(nuiops' # nuiops /\ ui_event'.kind = "sub"
        /\ tree[ui_event'.node].nchildren # 0) =>
       LET p == ui_event'.node
           every_on == \A q \in LeavesBelow(tree, p) : tree[q].subscribed
       IN /\ SubtreeSetTo(tree, tree', p, ~every_on)
          /\ \A r \in DOMAIN tree :
               LET all_on == field_set_subscribed_all(tree, << r >>, TRUE)
                   all_off == field_set_subscribed_all(tree, << r >>, FALSE)
               IN /\ SubtreeSetTo(tree, all_on, r, TRUE)
                  /\ field_all_children_subscribed(all_on, << r >>)
                  /\ SubtreeSetTo(tree, all_off, r, FALSE)
                  /\ ~field_any_child_subscribed(all_off, << r >>)]_vars

\* a parent whose subtree was mixed has been clicked: every leaf below it is
\* on, and a leaf outside its subtree is still off
C18_Witness ==
  /\ ui_event.kind = "sub"
  /\ ui_event.node # << >>
  /\ tree[ui_event.node].nchildren # 0
  /\ ui_event.any_sub /\ ~ui_event.all_sub
  /\ \A q \in LeavesBelow(tree, ui_event.node) : tree[q].subscribed
  /\ \E q \in DOMAIN tree \ Subtree(tree, ui_event.node) :
       tree[q].nchildren = 0 /\ ~tree[q].subscribed

\* the leaf has just been edited in the view
Edited(i) == last_op = "render" /\ dirty[i]

\* the region just acknowledged lists the leaf, its flag is clear, and the
\* desired buffer and the device hold the bytes of its value
WrittenAndCleared(i) ==
  /\ last_op = "ack"
  /\ i \in ListedFields(write_queue[qi - 1])
  /\ ~dirty[i]
  /\ \A k \in 0..(leaf_list[i].nbytes - 1) :
       /\ ctl_buf[leaf_list[i].byte_offset + k] = value[i][k]
       /\ dev[leaf_list[i].byte_offset + k] = value[i][k]

\* C20: in the repeated cycle, when transport writes eventually succeed, a
\* leaf that is edited is eventually staged, written and its dirty flag
\* cleared; no edit is dropped without having been written.
C20_EditsEventuallyWritten ==
  \A i \in 1..Len(LayoutExample.leaves) : Edited(i) ~> WrittenAndCleared(i)

\* C24: clear_dirty_flags(region) sets dirty to false for exactly the fields
\* listed in the region; the dirty flags of the other fields, all subscribed
\* flags, all values and both mirror buffers are unchanged.
C24_ClearDirtyFrame ==
  [][last_op' = "ack" =>
       /\ dirty' = [i \in DOMAIN dirty |->
                      IF i \in ListedFields(write_queue[qi]) THEN FALSE
                      ELSE dirty[i]]
       /\ subscribed' = subscribed
       /\ use_display_scale' = use_display_scale
       /\ value' = value
       /\ ctl_buf' = ctl_buf
       /\ periph_buf' = periph_buf]_vars

\* a region has just been acknowledged while a field of another region is
\* still dirty and a field is subscribed
C24_Witness ==
  /\ last_op = "ack"
  /\ ListedFields(write_queue[qi - 1]) # {}
  /\ \A i \in ListedFields(write_queue[qi - 1]) : ~dirty[i]
  /\ \E j \in DOMAIN dirty : dirty[j] /\ j \notin ListedFields(write_queue[qi - 1])
  /\ \E j \in DOMAIN subscribed : subscribed[j]

\* C27: sync_periph_buf_to_fields never changes the value of a leaf whose
\* dirty flag is set, so an edit whose write failed is still the value
\* retried on the next cycle when the leaf is also subscribed.
C27_ReadKeepsPendingEdit ==
  [][last_op' = "from_wire" =>
       \A i \in DOMAIN dirty : dirty[i] => value'[i] = value[i]]_vars

\* C28: every region of the write queue and of the read queue fits inside
\* the mirror buffers: start_offset + length <= config.nbytes, also when the
\* symbol's size is not a multiple of 4.
C28_RegionsFitMirrorBuffers ==
  \A r \in AllRegions : r.start_offset + r.length <= cfg_nbytes

\* the bytes of the region that belong to one of its dirty fields
DirtyBytes(r) ==
  UNION {FieldRange(leaf_list[i]) : i \in {k \in ListedFields(r) : dirty[k]}}

\* C30: when a write region is handed to the transport, every byte of the
\* desired buffer inside the region that does not belong to a dirty field of
\* the region equals the byte of the observed buffer, so the write leaves
\* the device bytes of untouched neighbours unchanged.
C30_WriteKeepsNeighbours ==
  pc = "tx" =>
    \A p \in (RegionRange(write_queue[qi]) \cap DOMAIN ctl_buf)
               \ DirtyBytes(write_queue[qi]) :
      ctl_buf[p] = periph_buf[p]

\* the conversion of the resolved type has finished and nothing has been
\* expanded yet
Converted == load_pc = "convert" /\ stack = << >>

\* the TypeInfo the node at path p was converted from: a struct/union member
\* or the element of an array
RECURSIVE TypeInfoAt(_, _)
TypeInfoAt(ti, p) ==
  IF p = << >> THEN ti ELSE TypeInfoAt(ti.fields[Head(p)].type_info, Tail(p))

\* C23: in the tree built by type_info_to_dartt_field every struct/union
\* member node's byte_offset is its parent's absolute byte_offset plus the
\* member's relative offset from the metadata, the representative child of a
\* struct/union array has the array's byte_offset, the root has the base
\* offset 0, and every node's dartt_offset is byte_offset / 4.
C23_AbsoluteOffsetsPropagated ==
  Converted =>
    /\ tree[<< >>].byte_offset = 0
    /\ \A p \in DOMAIN tree :
         /\ tree[p].dartt_offset = tree[p].byte_offset \div WordBytes
         /\ p # << >> =>
              LET parent_ti == TypeInfoAt(type_info, Parent(p)) IN
                tree[p].byte_offset =
                  tree[Parent(p)].byte_offset
                    + (IF parent_ti.type \in {"struct", "union"}
                       THEN parent_ti.fields[p[Len(p)]].byte_offset
                       ELSE 0)

\* a member at a nonzero relative offset below a struct that itself lies at
\* a nonzero offset, and a representative child of an array at a nonzero
\* offset, have been converted
C23_Witness ==
  /\ Converted
  /\ \E p \in DOMAIN tree :
       /\ Len(p) >= 2
       /\ tree[Parent(p)].byte_offset > 0
       /\ tree[p].byte_offset > tree[Parent(p)].byte_offset
  /\ \E p \in DOMAIN tree :
       /\ p # << >>
       /\ tree[Parent(p)].array_size > 0
       /\ tree[p].byte_offset > 0

\* C25: running expand_array_elements a second time on a tree it has
\* already expanded leaves the tree unchanged.
C25_ExpansionIdempotent ==
  load_pc = "expanded_again" => tree = ref_tree

\* the second run has returned on a tree that holds expanded elements and a
\* struct array with its representative child
C25_Witness ==
  /\ load_pc = "expanded_again"
  /\ \E p \in DOMAIN tree : ExpandedElement(p)
  /\ \E p \in DOMAIN tree : tree[p].array_size > 0 /\ tree[p].nchildren = 1

\* C29: every leaf of the leaf list of a tree built from debug metadata or
\* from a JSON description has nbytes <= 8, the size of the value union, so
\* the marshaller's nbytes-long copies stay inside the leaf's value storage.
C29_LeafFitsValueSlot ==
  load_pc = "done" =>
    \A k \in 1..Len(load_leaves) :
      tree[load_leaves[k]].nbytes <= ValueSlotBytes

\* C21: during one call of resolve_type_iterative each type DIE (identified
\* by its offset) is parsed at most once; later references to the same type
\* are served from the TypeCache.
C21_EachTypeParsedOnce ==
  \A off \in DOMAIN parsed : parsed[off] <= 1

\* the descriptor slot s without its alias name and qualifier flags
Unwrapped(s) ==
  [s EXCEPT !.typedef_name = "", !.is_const = FALSE, !.is_volatile = FALSE]

\* both calls have returned: res_ref is the descriptor resolved through the
\* typedef/const/volatile chain, root_result the one of the underlying type
BothResolved == res_pc = "returned" /\ res_run = "underlying"

\* C22: resolving a type through a chain of typedef, const and volatile
\* DIEs gives the descriptor of the underlying type: the same slots, with the
\* same type, size, members, dimensions and element count; only the alias
\* name and the const/volatile flags of the root slot differ.
C22_WrappersTransparent ==
  BothResolved =>
    /\ DOMAIN res_ref = DOMAIN root_result
    /\ Unwrapped(res_ref[<< >>]) = Unwrapped(root_result[<< >>])
    /\ \A r \in DOMAIN root_result : r # << >> => res_ref[r] = root_result[r]

\* volatile seg_t resolved both ways: a struct of two struct members behind
\* a qualifier and a typedef
C22_Witness ==
  /\ BothResolved
  /\ start_offset = 23
  /\ res_ref[<< >>].is_volatile
  /\ res_ref[<< >>].typedef_name = "seg_t"
  /\ root_result[<< >>].type = "struct"
  /\ root_result[<< >>].nfields = 2
  /\ << 2, 1 >> \in DOMAIN root_result

\* C26: every call of resolve_type_iterative returns: its work stack
\* becomes empty after finitely many iterations, whatever the type graph.
C26_ResolverTerminates ==
  (res_pc = "running") ~> (res_pc = "returned")

============================================================================
